---- MODULE Spec2Model ----
(***************************************************************************)
(* Model of the speedwagon packaging scripts (package_speedwagon).         *)
(*                                                                         *)
(* One behaviour of the model is one call of one entry point of the        *)
(* package: Init picks the entry point (op) and its inputs, the actions    *)
(* are the steps of that call, and pc = "done" ends it.                    *)
(*                                                                         *)
(* Python values are records: None is PyNone, a str or a path is           *)
(* Str(tokens) where tokens is the sequence of the pieces it is made of,   *)
(* so that a formatted message still shows the pieces put into it and      *)
(* str.endswith can look at the last piece.                                *)
(***************************************************************************)
EXTENDS Integers, Sequences, FiniteSets, TLC

VARIABLES
    op,          \* the entry point called in this behaviour
    pc,          \* position inside the call
    env,         \* the process environment: sys.platform, where cpack is, ...
    strategies,  \* the strategy list a resolver iterates over
    idx,         \* number of strategies the resolver's for loop has consumed
    calls,       \* log: the strategies invoked (index or name), in invocation order
    args,        \* the arguments of the call
    fs,          \* file system: directory |-> its entries in os.scandir order
    tools,       \* log: external tool runs, with their exit status
    cpackCalls,  \* log: run_cpack invocations, <<config_file, build_path>>
    locateCalls, \* log: locate_installer_artifact invocations, the path given
    searches,    \* log: frozen-folder search strategies invoked, with their path
    generator,   \* the attributes assigned on the generator object of the call
    stages,      \* log: the stages of main completed so far
    effects,     \* what the call has created, written or removed on disk
    module,      \* module attributes a caller may have assigned before the call
    data,        \* the SpecsData record a spec generator holds (self.data)
    rendered,    \* log: the mapping and the outcome of each generate() call
    files,       \* content of the files the license strategies read and write
    log,         \* log: the warnings the call has logged
    result       \* outcome of the call: pending, return(val) or raise(exc, msg)

vars == <<op, pc, env, strategies, idx, calls, args, fs, tools, cpackCalls,
          locateCalls, searches, generator, stages, effects, module, data,
          rendered, files, log, result>>

resolverVars == <<strategies, idx, calls>>

packagerVars == <<fs, tools, cpackCalls, locateCalls>>

mainVars == <<searches, generator, stages, effects>>

renderVars == <<data, rendered>>

(***************************************************************************)
(* Bounds                                                                  *)
(***************************************************************************)
MaxStrategies == 3

MaxNumber == 2

(***************************************************************************)
(* Python values and call outcomes                                         *)
(***************************************************************************)
PyNone == [t |-> "None", s |-> <<>>]

Str(tokens) == [t |-> "str", s |-> tokens]

Pending == [kind |-> "pending", val |-> PyNone, exc |-> "", msg |-> <<>>]

Return(v) == [kind |-> "return", val |-> v, exc |-> "", msg |-> <<>>]

Raise(e, m) == [kind |-> "raise", val |-> PyNone, exc |-> e, msg |-> m]

Range(f) == {f[i] : i \in DOMAIN f}

SeqsUpTo(S, n) == UNION {[1..k -> S] : k \in 0..n}

\* What one strategy callable does when it is invoked.  The empty str is a
\* value like any other for "is None".
StrategyOutcomes ==
    { Return(PyNone),
      Return(Str(<<>>)),
      Return(Str(<<"first">>)),
      Return(Str(<<"second">>)),
      Raise("FileNotFoundError", <<"strategy found nothing">>),
      Raise("ValueError", <<"strategy broke">>) }

\* strategies=None of get_cpack_path
NoStrategies == <<Raise("NoneType", <<>>)>>

\* sys.platform
Platforms == {"win32", "darwin", "linux"}

DefaultEnv ==
    [platform |-> "darwin", cpack_on_path |-> TRUE, cpack_in_cmake |-> TRUE]

Envs ==
    [platform : Platforms,
     cpack_on_path : BOOLEAN,
     cpack_in_cmake : BOOLEAN]

(***************************************************************************)
(* The license strategies: LocateLicenseFile, GenerateNoLicenseGivenFile,  *)
(* CopyLicenseFile, and the lists get_license_path builds from them        *)
(*                                                                         *)
(* files maps an absolute path to whether a file is there and its text.    *)
(***************************************************************************)
\* os.path.abspath in the working directory /cwd: an absolute path is
\* left as it is
abspath(p) ==
    IF Len(p) >= 1 /\ p[1] = "/cwd/"
       THEN p
       ELSE <<"/cwd/">> \o (IF Len(p) >= 2 /\ p[1] = "." /\ p[2] = "/"
                               THEN SubSeq(p, 3, Len(p))
                               ELSE p)

NoFile == [exists |-> FALSE, text |-> ""]

FileWith(text) == [exists |-> TRUE, text |-> text]

\* GenerateNoLicenseGivenFile.get_license_text
NoLicenseText == "No License given"

\* LocateLicenseFile(): search_paths is ['.'], potential_file_name LICENSE
LocateLicenseFile ==
    [class |-> "LocateLicenseFile", source |-> <<".", "/", "LICENSE">>,
     output |-> <<>>]

GenerateNoLicenseGivenFile(output_file) ==
    [class |-> "GenerateNoLicenseGivenFile", source |-> <<>>,
     output |-> output_file]

CopyLicenseFile(source_file, output_file) ==
    [class |-> "CopyLicenseFile", source |-> source_file,
     output |-> output_file]

\* strategy(): what it returns and the files it leaves
InvokeLicenseStrategy(s, f) ==
    CASE s.class = "LocateLicenseFile" ->
            [out |-> IF f[abspath(s.source)].exists
                        THEN Return(Str(abspath(s.source)))
                        ELSE Return(PyNone),
             files |-> f]
      [] s.class = "GenerateNoLicenseGivenFile" ->
            [out |-> Return(Str(abspath(s.output))),
             files |-> [f EXCEPT ![abspath(s.output)] =
                                     FileWith(NoLicenseText)]]
      [] OTHER ->
            IF ~f[abspath(s.source)].exists
               THEN [out |-> Return(PyNone), files |-> f]
               ELSE [out |-> Return(Str(abspath(s.output))),
                     files |-> [f EXCEPT ![abspath(s.output)] =
                                   FileWith(f[abspath(s.source)].text)]]

\* a CPackGenerator.get_license_path without the placeholder strategy
BaseLicenseStrategiesLocateOnly(output_path) ==
    <<LocateLicenseFile>>

\* CPackGenerator.get_license_path: the list it hands to get_license
BaseLicenseStrategies(output_path) ==
    <<LocateLicenseFile,
      GenerateNoLicenseGivenFile(<<output_path, "/", "LICENSE">>)>>

\* WindowsPackageGenerator.get_license_path: the list it hands to get_license
WindowsLicenseStrategies(output_path) ==
    <<CopyLicenseFile(<<"LICENSE">>, <<output_path, "/", "LICENSE.txt">>),
      GenerateNoLicenseGivenFile(<<output_path, "/", "LICENSE.txt">>)>>

\* get_license_path of the generator class, up to the call of get_license
GetLicensePathEnter ==
    /\ op = "get_license_path"
    /\ pc = "enter"
    /\ strategies' = IF args.generator = "WindowsPackageGenerator"
                        THEN WindowsLicenseStrategies(args.output_path)
                        ELSE BaseLicenseStrategies(args.output_path)
    /\ pc' = "loop"
    /\ UNCHANGED <<op, env, args, module, log, renderVars, files, idx, calls,
                   result, packagerVars, mainVars>>

(***************************************************************************)
(* installer.get_license                                                   *)
(***************************************************************************)
LicenseNotFoundMessage == <<"Unable to find ", "license file">>

\* a loop that goes on to the next strategy whatever the result
LicenseResultDiscarded(v) == TRUE

\* "if not result: continue"
LicenseResultIsFalsy(v) == v = PyNone \/ v.s = <<>>

\* "if result is None: continue"
LicenseResultIsNone(v) == v = PyNone

\* one turn of the for loop; a strategy of a get_license_path list is run
\* on the files, a strategy a caller passes gives the outcome it stands for
GetLicenseStep ==
    /\ op \in {"get_license", "get_license_path"}
    /\ pc = "loop"
    /\ idx < Len(strategies)
    /\ LET i == idx + 1
           run == IF op = "get_license"
                     THEN [out |-> strategies[i], files |-> files]
                     ELSE InvokeLicenseStrategy(strategies[i], files)
           o == run.out
       IN  /\ idx' = i
           /\ calls' = Append(calls, i)
           /\ files' = run.files
           /\ IF o.kind = "raise"
                 THEN result' = o /\ pc' = "done"
                 ELSE IF LicenseResultIsNone(o.val)
                         THEN UNCHANGED result /\ pc' = "loop"
                         ELSE result' = Return(o.val) /\ pc' = "done"
    /\ UNCHANGED <<op, env, args, module, log, renderVars, strategies, packagerVars, mainVars>>

GetLicenseExhausted ==
    /\ op \in {"get_license", "get_license_path"}
    /\ pc = "loop"
    /\ idx = Len(strategies)
    /\ result' = Raise("FileNotFoundError", LicenseNotFoundMessage)
    /\ pc' = "done"
    /\ UNCHANGED <<op, env, args, module, log, renderVars, files, strategies, idx, calls, packagerVars, mainVars>>

(***************************************************************************)
(* installer.get_cpack_path and its two default strategies                 *)
(***************************************************************************)
CpackNotFoundMessage == <<"cpack", " command not found">>

CpackOnPath == Str(<<"/usr/bin/", "cpack">>)

CpackInCmake == Str(<<"cmake/data/bin/", "cpack">>)

locate_cpack_on_path_env_var(e) ==
    IF e.cpack_on_path
       THEN Return(CpackOnPath)
       ELSE Raise("FileNotFoundError",
                  <<"cpack", " command not found in the $PATH">>)

locate_cpack_in_python_packages(e) ==
    IF e.cpack_in_cmake
       THEN Return(CpackInCmake)
       ELSE Raise("FileNotFoundError",
                  <<"cpack", " command not found in python packages">>)

\* "if strategies is None: strategies = [...]"
CpackStrategies(arg, e) ==
    IF arg = NoStrategies
       THEN <<locate_cpack_on_path_env_var(e),
              locate_cpack_in_python_packages(e)>>
       ELSE arg

\* "except Exception: continue"
CpackCaughtAnyException(o) == o.kind = "raise"

\* "except ValueError: continue"
CpackCaughtWrongType(o) == o.kind = "raise" /\ o.exc = "ValueError"

\* "except FileNotFoundError: continue"
CpackCaught(o) == o.kind = "raise" /\ o.exc = "FileNotFoundError"

GetCpackPathEnter ==
    /\ op = "get_cpack_path"
    /\ pc = "enter"
    /\ strategies' = CpackStrategies(strategies, env)
    /\ pc' = "loop"
    /\ UNCHANGED <<op, env, args, module, log, renderVars, files, idx, calls, result, packagerVars, mainVars>>

GetCpackPathStep ==
    /\ op = "get_cpack_path"
    /\ pc = "loop"
    /\ idx < Len(strategies)
    /\ LET i == idx + 1
           o == strategies[i]
       IN  /\ idx' = i
           /\ calls' = Append(calls, i)
           /\ IF CpackCaught(o)
                 THEN UNCHANGED result /\ pc' = "loop"
                 ELSE result' = o /\ pc' = "done"
    /\ UNCHANGED <<op, env, args, module, log, renderVars, files, strategies, packagerVars, mainVars>>

\* the loop falls off its end without the final raise
GetCpackPathExhaustedReturnsNone ==
    /\ op = "get_cpack_path"
    /\ pc = "loop"
    /\ idx = Len(strategies)
    /\ result' = Return(PyNone)
    /\ pc' = "done"
    /\ UNCHANGED <<op, env, args, module, log, renderVars, files, strategies, idx, calls, packagerVars, mainVars>>

GetCpackPathExhausted ==
    /\ op = "get_cpack_path"
    /\ pc = "loop"
    /\ idx = Len(strategies)
    /\ result' = Raise("FileNotFoundError", CpackNotFoundMessage)
    /\ pc' = "done"
    /\ UNCHANGED <<op, env, args, module, log, renderVars, files, strategies, idx, calls, packagerVars, mainVars>>

(***************************************************************************)
(* File system                                                             *)
(*                                                                         *)
(* A directory is the sequence of its entries in the order os.scandir      *)
(* yields them.  An entry has a name (pieces, the last one the extension), *)
(* is a directory or not, and a directory has entries of its own.          *)
(***************************************************************************)
MaxEntries == 2

File(name) == [name |-> name, is_dir |-> FALSE, children |-> <<>>]

Dir(name, children) == [name |-> name, is_dir |-> TRUE, children |-> children]

EntryPool ==
    { File(<<"app", ".dmg">>),
      File(<<"app", ".msi">>),
      File(<<"app", ".dmg", ".sha256">>),
      Dir(<<"old", ".dmg">>, <<>>),
      Dir(<<"old", ".msi">>, <<>>),
      Dir(<<"sub">>, <<File(<<"inner", ".dmg">>), File(<<"inner", ".msi">>)>>) }

\* no two entries of a directory have the same name
Listings ==
    { l \in SeqsUpTo(EntryPool, MaxEntries) :
        \A i, j \in DOMAIN l : l[i].name = l[j].name => i = j }

DirPaths == {"dist", "out"}

EmptyFs == [d \in DirPaths |-> <<>>]

\* os.path.join(path, name)
JoinPath(path, name) == Str(<<path, "/">> \o name)

\* str.endswith
EndsWith(name, suffix) == Len(name) > 0 /\ name[Len(name)] = suffix

InsertAt(l, k, e) ==
    [i \in 1..(Len(l) + 1) |->
        IF i < k THEN l[i] ELSE IF i = k THEN e ELSE l[i - 1]]

(***************************************************************************)
(* AppleDMGPlatformPackager / MSIPlatformPackager                          *)
(***************************************************************************)
Packagers == {"AppleDMGPlatformPackager", "MSIPlatformPackager"}

ArtifactExtension(packager) ==
    IF packager = "AppleDMGPlatformPackager" THEN ".dmg" ELSE ".msi"

\* the loop without "if i.is_dir(): continue"
RECURSIVE ScanForArtifactNoDirCheck(_, _, _)
ScanForArtifactNoDirCheck(entries, i, ext) ==
    IF i > Len(entries)
       THEN 0
       ELSE IF EndsWith(entries[i].name, ext)
               THEN i
               ELSE ScanForArtifactNoDirCheck(entries, i + 1, ext)

\* the loop of locate_installer_artifact: index of the entry returned, 0 if
\* the loop runs off the end
RECURSIVE ScanForArtifact(_, _, _)
ScanForArtifact(entries, i, ext) ==
    IF i > Len(entries)
       THEN 0
       ELSE IF entries[i].is_dir
               THEN ScanForArtifact(entries, i + 1, ext)
               ELSE IF EndsWith(entries[i].name, ext)
                       THEN i
                       ELSE ScanForArtifact(entries, i + 1, ext)

NoArtifactInMessage(packager, path) ==
    IF packager = "AppleDMGPlatformPackager"
       THEN <<"No dmg file in ", path>>
       ELSE <<"No .msi found in ", path>>

locate_installer_artifact(packager, path, fsys) ==
    LET i == ScanForArtifact(fsys[path], 1, ArtifactExtension(packager))
    IN  IF i = 0
           THEN Raise("FileNotFoundError", NoArtifactInMessage(packager, path))
           ELSE Return(JoinPath(path, fsys[path][i].name))

NoArtifactForMessage(packager, config_file) ==
    IF packager = "AppleDMGPlatformPackager"
       THEN <<"No dmg found for ", config_file>>
       ELSE <<"No .msi found for ", config_file>>

\* get_cpack_path() as run_cpack calls it: the loop of get_cpack_path over
\* the default strategies
RECURSIVE FirstCpack(_, _)
FirstCpack(outs, i) ==
    IF i > Len(outs)
       THEN Raise("FileNotFoundError", CpackNotFoundMessage)
       ELSE IF CpackCaught(outs[i])
               THEN FirstCpack(outs, i + 1)
               ELSE outs[i]

\* what a cpack run that exits 0 leaves in its build directory
CpackProducts ==
    { <<>>,
      <<File(<<"Speedwagon", ".dmg">>)>>,
      <<File(<<"Speedwagon", ".msi">>)>>,
      <<Dir(<<"_CPack_Packages">>, <<File(<<"Speedwagon", ".dmg">>)>>)>> }

\* subprocess.call in place of subprocess.check_call
CallIgnoresExit(exit) == FALSE

\* subprocess.check_call raises CalledProcessError on a non-zero exit
CheckCallRaises(exit) == exit # 0

\* run_cpack(str(config_file)): build_path left to its default
RunCpackArgumentsDefaultBuildPath(a) == <<a.config_file, "dist">>

\* the arguments create_system_package gives run_cpack
RunCpackArguments(a) == <<a.config_file, a.output_path>>

\* the path create_system_package gives locate_installer_artifact
LocateArgument(a) == a.output_path

\* create_system_package up to the return of run_cpack: get_cpack_path(),
\* then subprocess.check_call
CreateSystemPackageRunCpack ==
    /\ op = "create_system_package"
    /\ pc = "run_cpack"
    /\ LET call == RunCpackArguments(args)
           cmd  == FirstCpack(CpackStrategies(NoStrategies, env), 1)
       IN  /\ cpackCalls' = Append(cpackCalls, call)
           /\ IF cmd.kind = "raise"
                 THEN /\ result' = cmd
                      /\ pc' = "done"
                      /\ UNCHANGED <<fs, tools>>
                 ELSE \E exit \in {0, 1} :
                        /\ tools' = Append(tools,
                              [tool |-> "cpack", cmd |-> cmd.val,
                               argv |-> <<"--config", call[1], "-B", call[2]>>,
                               exit |-> exit])
                        /\ IF CheckCallRaises(exit)
                              THEN /\ result' = Raise("CalledProcessError",
                                                      <<"cpack", " returned non-zero exit status">>)
                                   /\ pc' = "done"
                                   /\ UNCHANGED fs
                              ELSE /\ \E made \in CpackProducts,
                                         k \in 1..(Len(fs[call[2]]) + 1) :
                                        fs' = IF made = <<>>
                                                 THEN fs
                                                 ELSE [fs EXCEPT ![call[2]] =
                                                         InsertAt(@, k, made[1])]
                                   /\ pc' = "locate"
                                   /\ UNCHANGED result
    /\ UNCHANGED <<op, env, args, module, log, renderVars, files, resolverVars, locateCalls, mainVars>>

\* the try block of create_system_package
CreateSystemPackageLocate ==
    /\ op = "create_system_package"
    /\ pc = "locate"
    /\ LET path  == LocateArgument(args)
           found == locate_installer_artifact(args.packager, path, fs)
       IN  /\ locateCalls' = Append(locateCalls, path)
           /\ result' =
                IF found.kind = "raise"
                   THEN Raise("FileNotFoundError",
                              NoArtifactForMessage(args.packager, args.config_file))
                   ELSE found
    /\ pc' = "done"
    /\ UNCHANGED <<op, env, args, module, log, renderVars, files, resolverVars, fs, tools, cpackCalls, mainVars>>

\* locate_installer_artifact called on its own
LocateInstallerArtifact ==
    /\ op = "locate_installer_artifact"
    /\ pc = "call"
    /\ locateCalls' = Append(locateCalls, args.output_path)
    /\ result' = locate_installer_artifact(args.packager, args.output_path, fs)
    /\ pc' = "done"
    /\ UNCHANGED <<op, env, args, module, log, renderVars, files, resolverVars, fs, tools, cpackCalls, mainVars>>

(***************************************************************************)
(* Platform-keyed registries.  "none" is dict.get's None.                  *)
(***************************************************************************)
\* config_os_mappings.get(sys.platform, WindowsConfigFactory())
config_os_mappings_with_default(platform) ==
    IF platform = "darwin" THEN "MacConfigFactory" ELSE "WindowsConfigFactory"

\* config_os_mappings.get(sys.platform)
config_os_mappings(platform) ==
    CASE platform = "darwin" -> "MacConfigFactory"
      [] platform = "win32"  -> "WindowsConfigFactory"
      [] OTHER               -> "none"

\* strategies.get(sys.platform) of find_frozen_folder
FrozenStrategyFor(platform) ==
    CASE platform = "win32"  -> "find_frozen_windows"
      [] platform = "darwin" -> "find_frozen_mac"
      [] OTHER               -> "none"

\* generators.get(sys.platform) of write_cpack_config_file
CpackGeneratorFor(platform) ==
    CASE platform = "win32"  -> "WindowsPackageGenerator"
      [] platform = "darwin" -> "MacOSPackageGenerator"
      [] OTHER               -> "none"

UnsupportedPlatformMessage(platform) == <<"Unsupported platform: ", platform>>

UnsupportedPlatformQuotedMessage(platform) ==
    <<"Unsupported platform '", platform, "'">>

(***************************************************************************)
(* freeze.find_frozen_folder and the two search strategies                 *)
(*                                                                         *)
(* The tree walked is two levels deep: the directories of search_path and  *)
(* the files in them.                                                      *)
(***************************************************************************)
DEFAULT_COLLECTION_NAME == <<"Speedwagon!">>

FrozenPool ==
    { Dir(<<"Speedwagon", ".app">>, <<>>),
      File(<<"Speedwagon", ".app">>),
      Dir(<<"Speedwagon!">>, <<File(<<"speedwagon", ".exe">>)>>),
      Dir(<<"Speedwagon!">>, <<File(<<"python", ".exe">>)>>) }

FrozenListings ==
    { l \in SeqsUpTo(FrozenPool, MaxEntries) :
        \A i, j \in DOMAIN l : l[i].name = l[j].name => i = j }

\* "for dir_name in dirs" of find_frozen_mac at the top of the walk
RECURSIVE WalkMac(_, _, _)
WalkMac(entries, i, app_name) ==
    IF i > Len(entries)
       THEN 0
       ELSE IF entries[i].is_dir /\ entries[i].name = <<app_name, ".app">>
               THEN i
               ELSE WalkMac(entries, i + 1, app_name)

find_frozen_mac(search_path, a, fsys) ==
    LET i == WalkMac(fsys[search_path], 1, a.app_name)
    IN  IF i = 0 THEN PyNone
                 ELSE JoinPath(search_path, fsys[search_path][i].name)

\* "for filename in os.listdir(path)" of find_frozen_windows
HasSpeedwagonExe(children) ==
    \E k \in DOMAIN children :
        /\ EndsWith(children[k].name, ".exe")
        /\ children[k].name = <<"speedwagon", ".exe">>

RECURSIVE WalkWindows(_, _)
WalkWindows(entries, i) ==
    IF i > Len(entries)
       THEN 0
       ELSE IF /\ entries[i].is_dir
               /\ entries[i].name = DEFAULT_COLLECTION_NAME
               /\ HasSpeedwagonExe(entries[i].children)
               THEN i
               ELSE WalkWindows(entries, i + 1)

find_frozen_windows(search_path, a, fsys) ==
    LET i == WalkWindows(fsys[search_path], 1)
    IN  IF i = 0 THEN PyNone
                 ELSE JoinPath(search_path, fsys[search_path][i].name)

\* strategy(search_path, args); "custom" is a strategy the caller passes
RunFrozenStrategy(strategy, search_path, a, fsys) ==
    CASE strategy = "find_frozen_mac" -> find_frozen_mac(search_path, a, fsys)
      [] strategy = "find_frozen_windows" ->
            find_frozen_windows(search_path, a, fsys)
      [] OTHER -> a.custom_result

FindFrozenFolder ==
    /\ op = "find_frozen_folder"
    /\ pc = "call"
    /\ LET strategy == IF args.strategy = "None"
                          THEN FrozenStrategyFor(env.platform)
                          ELSE args.strategy
       IN  IF strategy = "none"
              THEN /\ result' = Raise("ValueError",
                                      UnsupportedPlatformMessage(env.platform))
                   /\ UNCHANGED searches
              ELSE /\ searches' = Append(searches, <<strategy, args.search_path>>)
                   /\ result' = Return(RunFrozenStrategy(strategy,
                                           args.search_path, args, fs))
    /\ pc' = "done"
    /\ UNCHANGED <<op, env, args, module, log, renderVars, files, resolverVars, packagerVars, generator,
                   stages, effects>>

(***************************************************************************)
(* installer.write_cpack_config_file                                       *)
(***************************************************************************)
WriteCpackConfigFile ==
    /\ op = "write_cpack_config_file"
    /\ pc = "call"
    /\ IF CpackGeneratorFor(env.platform) = "none"
          THEN /\ result' = Raise("ValueError",
                                  UnsupportedPlatformQuotedMessage(env.platform))
               /\ UNCHANGED effects
          ELSE IF ~args.version_valid
                  \* open(cpack_config_file, "w"), then Version(string) raises
                  THEN /\ effects' = effects \cup {"cpack_config_opened"}
                       /\ result' = Raise("InvalidVersion", <<"Invalid version">>)
                  ELSE /\ effects' = effects \cup
                              {"cpack_config_opened", "license_resolved",
                               "description_file_written",
                               "cpack_config_written"}
                       /\ result' = Return(JoinPath(args.destination_path,
                                                    <<"CPackConfig", ".cmake">>))
    /\ pc' = "done"
    /\ UNCHANGED <<op, env, args, module, log, renderVars, files, resolverVars, packagerVars, searches,
                   generator, stages>>

(***************************************************************************)
(* freeze.freeze_env, and the call main makes of it                        *)
(***************************************************************************)
\* def freeze_env(specs_file, build_path, work_path, dest): none has a default
FreezeEnvParameters == {"specs_file", "build_path", "work_path", "dest"}

\* freeze.freeze_env(specs_file=..., work_path=..., dest=...) in main
MainFreezeEnvKeywords == {"specs_file", "work_path", "dest"}

\* Python binds the keywords of a call to the parameters before the body
\* runs: a required parameter left without a value, or a keyword that names
\* no parameter, is a TypeError
BindingError(parameters, keywords) ==
    IF parameters \ keywords # {}
       THEN Raise("TypeError",
                  <<"missing required argument: ">> \o
                  <<CHOOSE x \in parameters \ keywords : TRUE>>)
       ELSE IF keywords \ parameters # {}
               THEN Raise("TypeError",
                          <<"got an unexpected keyword argument: ">> \o
                          <<CHOOSE x \in keywords \ parameters : TRUE>>)
               ELSE Pending

AllStages ==
    << "EnvPrepared", "SpecsBuilt", "FreezeConfigRendered", "Frozen",
       "FrozenFolderLocated", "InstallerConfigRendered", "InstallerBuilt",
       "ArtifactLocated" >>

\* freeze_env called on its own (op = "freeze_env") or by main.
\* PyInstaller runs in this process: "exit" 1 stands for the exception it
\* ends with when the build fails.
FreezeEnv ==
    /\ \/ op = "freeze_env" /\ pc = "call"
       \/ op = "main" /\ pc = "freeze"
    /\ LET keywords == IF op = "main" THEN MainFreezeEnvKeywords
                                      ELSE args.keywords
           bound    == BindingError(FreezeEnvParameters, keywords)
       IN  IF bound.kind = "raise"
              THEN /\ result' = bound
                   /\ pc' = "done"
                   /\ UNCHANGED <<tools, stages>>
              ELSE \E exit \in {0, 1} :
                     /\ tools' = Append(tools,
                           [tool |-> "PyInstaller", cmd |-> Str(<<"PyInstaller">>),
                            argv |-> <<"--noconfirm", "specs.spec", "--distpath",
                                       "dist", "--workpath", "workpath", "--clean">>,
                            exit |-> exit])
                     /\ IF exit # 0
                           THEN /\ result' = Raise("SystemExit", <<"PyInstaller">>)
                                /\ pc' = "done"
                                /\ UNCHANGED stages
                           ELSE IF op = "main"
                                   THEN /\ stages' = Append(stages, "Frozen")
                                        /\ pc' = "find_frozen"
                                        /\ UNCHANGED result
                                   ELSE /\ result' = Return(PyNone)
                                        /\ pc' = "done"
                                        /\ UNCHANGED stages
    /\ UNCHANGED <<op, env, args, module, log, renderVars, files, resolverVars, fs, cpackCalls, locateCalls,
                   searches, generator, effects>>

(***************************************************************************)
(* package_speedwagon.main, after parse_args                               *)
(***************************************************************************)
NoGenerator == [additional_hooks_path |-> PyNone, python_package_file |-> PyNone]

\* the any([...]) that decides whether create_virtualenv is called
NeedsVirtualenv(a) ==
    \/ a.force_rebuild
    \/ ~a.env_exists
    \/ ~a.lib_exists
    \/ ~a.bin_exists

PipRun(exit) ==
    [tool |-> "pip", cmd |-> Str(<<"pip">>),
     argv |-> <<"install", "package.whl", "--upgrade", "--target=package_env">>,
     exit |-> exit]

\* lines 632-651 and create_virtualenv
MainPrepareEnv ==
    /\ op = "main"
    /\ pc = "prepare_env"
    /\ IF ~NeedsVirtualenv(args)
          THEN /\ stages' = Append(stages, "EnvPrepared")
               /\ pc' = "lookup"
               /\ UNCHANGED <<effects, tools, result>>
          ELSE CASE args.venv_outcome = "venv_error" ->
                       /\ effects' = effects \cup {"virtualenv_removed"}
                       /\ result' = Raise("OSError", <<"venv.create">>)
                       /\ pc' = "done"
                       /\ UNCHANGED <<tools, stages>>
                 [] args.venv_outcome = "pip_error" ->
                       /\ effects' = effects \cup
                              {"virtualenv_created", "virtualenv_removed"}
                       /\ tools' = Append(tools, PipRun(1))
                       /\ result' = Raise("CalledProcessError",
                                          <<"pip", " returned non-zero exit status">>)
                       /\ pc' = "done"
                       /\ UNCHANGED stages
                 [] OTHER ->
                       /\ effects' = effects \cup {"virtualenv_created"}
                       /\ tools' = Append(tools, PipRun(0))
                       /\ stages' = Append(stages, "EnvPrepared")
                       /\ pc' = "lookup"
                       /\ UNCHANGED result
    /\ UNCHANGED <<op, env, args, module, log, renderVars, files, resolverVars, fs, cpackCalls, locateCalls,
                   searches, generator>>

\* lines 653-657
MainLookupPlatform ==
    /\ op = "main"
    /\ pc = "lookup"
    /\ IF config_os_mappings(env.platform) = "none"
          THEN /\ result' = Raise("ValueError",
                                  UnsupportedPlatformMessage(env.platform))
               /\ pc' = "done"
          ELSE /\ pc' = "build_specs"
               /\ UNCHANGED result
    /\ UNCHANGED <<op, env, args, module, log, renderVars, files, resolverVars, packagerVars, mainVars>>

\* line 659, open(specs_file_name, "w"), and line 662, build_specs(args)
MainBuildSpecs ==
    /\ op = "main"
    /\ pc = "build_specs"
    /\ effects' = effects \cup {"specs_file_opened"}
    /\ generator' = [additional_hooks_path |-> Str(<<"build", "/", "hooks">>),
                     python_package_file |-> Str(<<"package", ".whl">>)]
    /\ IF args.wheel_has_top_level
          THEN /\ stages' = Append(stages, "SpecsBuilt")
               /\ pc' = "generate_freeze_config"
               /\ UNCHANGED result
          ELSE /\ result' = Raise("ValueError",
                                  <<"No ", "top_level.txt", " file in ", "package.whl">>)
               /\ pc' = "done"
               /\ UNCHANGED stages
    /\ UNCHANGED <<op, env, args, module, log, renderVars, files, resolverVars, packagerVars, searches>>

\* lines 660-664: generate_freeze_config(specs), then spec_file.write
MainWriteFreezeConfig ==
    /\ op = "main"
    /\ pc = "generate_freeze_config"
    /\ IF generator.additional_hooks_path = PyNone
          THEN /\ result' = Raise("ValueError", <<"No hooks path specified">>)
               /\ pc' = "done"
               /\ UNCHANGED <<effects, stages>>
          ELSE IF generator.python_package_file = PyNone
                  THEN /\ effects' = effects \cup
                              (IF args.hooks_exists THEN {}
                                                    ELSE {"hooks_dir_created"})
                       /\ result' = Raise("ValueError",
                                          <<"No python package file specified">>)
                       /\ pc' = "done"
                       /\ UNCHANGED stages
                  ELSE /\ effects' = effects \cup
                              (IF args.hooks_exists THEN {}
                                                    ELSE {"hooks_dir_created"})
                              \cup {"hook_file_written", "specs_file_written"}
                       /\ stages' = Append(stages, "FreezeConfigRendered")
                       /\ pc' = "freeze"
                       /\ UNCHANGED result
    /\ UNCHANGED <<op, env, args, module, log, renderVars, files, resolverVars, packagerVars, searches,
                   generator>>

(***************************************************************************)
(* CPackGenerator.get_cpack_package_file_name and its macOS override       *)
(*                                                                         *)
(* A packaging.version.Version: version.dev is None or a number,           *)
(* version.pre is None or a (letter, number) tuple.                        *)
(***************************************************************************)
Digits == <<"0", "1", "2", "3", "4", "5", "6", "7", "8", "9">>

\* str(n) of a small int
IntToStr(n) == Digits[n + 1]

PreLetters == {"a", "rc"}

Versions ==
    { v \in [has_dev : BOOLEAN, dev : 0..MaxNumber,
             has_pre : BOOLEAN, pre_letter : PreLetters,
             pre_number : 0..MaxNumber, has_post : BOOLEAN] :
        /\ ~v.has_dev => v.dev = 0
        /\ ~v.has_pre => (v.pre_letter = "a" /\ v.pre_number = 0) }

\* version.is_devrelease: "dev is not None"
is_devrelease(v) == v.has_dev

\* version.is_prerelease: "dev is not None or pre is not None"
is_prerelease(v) == v.has_dev \/ v.has_pre

\* ''.join(map(str, version.pre)) with the number left out
PrereleaseTagLetterOnly(v) == <<v.pre_letter>>

\* ''.join(map(str, version.pre))
PrereleaseTag(v) == <<v.pre_letter, IntToStr(v.pre_number)>>

\* the two ifs with the version.pre test put before the dev test
VersionCaseTagFirst(v) ==
    IF ~is_prerelease(v)
       THEN "release"
       ELSE IF v.has_pre THEN "pre" ELSE "dev"

\* "if not version.is_prerelease: ... if version.is_devrelease: ..."
VersionCase(v) ==
    IF ~is_prerelease(v)
       THEN "release"
       ELSE IF is_devrelease(v) THEN "dev" ELSE "pre"

CpackGenerators == {"WindowsPackageGenerator", "MacOSPackageGenerator"}

Processors == {"i386", "arm"}

\* "arch = 'x86_64' if platform.processor() == 'i386' else 'arm64'"
MacSystem(processor) ==
    IF processor = "i386" THEN "macos-x86_64" ELSE "macos-arm64"

\* CPackGenerator.get_cpack_package_file_name, inherited by the Windows
\* generator: the dev-release name has no system part
BaseCpackPackageFileName(v) ==
    CASE VersionCase(v) = "release" ->
            <<"${CPACK_PACKAGE_NAME}-", "${CPACK_PACKAGE_VERSION}", "-",
              "${CPACK_SYSTEM_NAME}">>
      [] VersionCase(v) = "dev" ->
            <<"${CPACK_PACKAGE_NAME}-", "${CPACK_PACKAGE_VERSION}",
              ".dev", IntToStr(v.dev)>>
      [] OTHER ->
            <<"${CPACK_PACKAGE_NAME}-", "${CPACK_PACKAGE_VERSION}", ".">>
            \o PrereleaseTag(v) \o <<"-", "${CPACK_SYSTEM_NAME}">>

\* MacOSPackageGenerator.get_cpack_package_file_name
MacCpackPackageFileName(v, processor) ==
    CASE VersionCase(v) = "release" ->
            <<"${CPACK_PACKAGE_NAME}-", "${CPACK_PACKAGE_VERSION}", "-",
              MacSystem(processor)>>
      [] VersionCase(v) = "dev" ->
            <<"${CPACK_PACKAGE_NAME}-", "${CPACK_PACKAGE_VERSION}",
              ".dev", IntToStr(v.dev), "-", MacSystem(processor)>>
      [] OTHER ->
            <<"${CPACK_PACKAGE_NAME}-", "${CPACK_PACKAGE_VERSION}", ".">>
            \o PrereleaseTag(v) \o <<"-", MacSystem(processor)>>

get_cpack_package_file_name(gen, v, processor) ==
    IF gen = "MacOSPackageGenerator"
       THEN MacCpackPackageFileName(v, processor)
       ELSE BaseCpackPackageFileName(v)

GetCpackPackageFileName ==
    /\ op = "get_cpack_package_file_name"
    /\ pc = "call"
    /\ result' = Return(Str(get_cpack_package_file_name(
                                args.generator, args.version, args.processor)))
    /\ pc' = "done"
    /\ UNCHANGED <<op, env, args, module, log, renderVars, files, resolverVars,
                   packagerVars, mainVars>>

(***************************************************************************)
(* freeze.SpecsData, AbsGenerateSpecs.map_data and                         *)
(* DefaultGenerateSpecs.generate                                           *)
(*                                                                         *)
(* A list of str is List(items); the list of (source, destination) tuples  *)
(* of data_files is Tuples(flat) with the tuples laid end to end.  A path  *)
(* separator is a piece of its own, so that repr can escape a backslash.   *)
(***************************************************************************)
List(items) == [t |-> "list", s |-> items]

Tuples(flat) == [t |-> "tuples", s |-> flat]

\* the fields of the SpecsData dataclass, in declaration order
SpecsDataFields ==
    <<"app_executable_name", "collection_name", "bundle_name",
      "installer_icon", "bootstrap_script", "app_icon", "search_paths",
      "data_files", "hookspath", "top_level_package_folder_name">>

SpecsDataRecords ==
    [app_executable_name : {Str(<<"speedwagon">>), Str(<<"mytool">>)},
     collection_name : {Str(DEFAULT_COLLECTION_NAME), Str(<<"MyCollection">>)},
     bundle_name : {Str(<<"Speedwagon", ".app">>), Str(<<"bundle">>)},
     installer_icon : {PyNone, Str(<<"C:", "\\", "installer.ico">>)},
     bootstrap_script : {PyNone, Str(<<"speedwagon-bootstrap.py">>),
                         Str(<<"C:", "\\", "bootstrap.py">>)},
     app_icon : {PyNone},
     search_paths : {List(<<>>), List(<<"build/speedwagon">>)},
     data_files : {Tuples(<<>>), Tuples(<<"logo.png", "speedwagon">>)},
     hookspath : {List(<<>>), List(<<"build/hooks">>)},
     top_level_package_folder_name :
         {PyNone, Str(<<"mytool">>), Str(<<"speedwagon">>)}]

\* AbsGenerateSpecs.key_mapping = {}
AbsKeyMapping == <<>>

\* DefaultGenerateSpecs.key_mapping
DefaultKeyMapping ==
    [data_files |-> "datas",
     top_level_package_folder_name |-> "hidden_imports"]

\* the generator classes: DefaultGenerateSpecs, and a subclass of it whose
\* key_mapping is the empty one AbsGenerateSpecs declares
GeneratorClasses == {"DefaultGenerateSpecs", "PlainKeysGenerateSpecs"}

key_mapping(class) ==
    IF class = "DefaultGenerateSpecs" THEN DefaultKeyMapping ELSE AbsKeyMapping

\* dataclasses.asdict hands the (name, value) pairs to dict_factory; the
\* values are copies equal to the record's
asdict_fields(d) ==
    [i \in DOMAIN SpecsDataFields |->
        [name |-> SpecsDataFields[i], value |-> d[SpecsDataFields[i]]]]

\* the inner function "mapping" of map_data: the key of one pair
mapping(km, key) == IF key \in DOMAIN km THEN km[key] ELSE key

\* a map_data that adds the renamed key and keeps the internal one
map_data_keeping_internal_names(km, fields) ==
    LET keys == {mapping(km, fields[i].name) : i \in DOMAIN fields}
                \cup {fields[i].name : i \in DOMAIN fields}
        last(k) == CHOOSE i \in DOMAIN fields :
                      /\ k \in {fields[i].name, mapping(km, fields[i].name)}
                      /\ \A j \in DOMAIN fields :
                            k \in {fields[j].name, mapping(km, fields[j].name)}
                               => j <= i
    IN  [k \in keys |-> fields[last(k)].value]

\* "dict(map(lambda field: mapping(*field), fields))": a later pair with
\* the same key replaces an earlier one
map_data(km, fields) ==
    LET keys == {mapping(km, fields[i].name) : i \in DOMAIN fields}
        last(k) == CHOOSE i \in DOMAIN fields :
                      /\ mapping(km, fields[i].name) = k
                      /\ \A j \in DOMAIN fields :
                            mapping(km, fields[j].name) = k => j <= i
    IN  [k \in keys |-> fields[last(k)].value]

\* repr of a str doubles each backslash and puts the text in quotes
ReprEscape(tokens) ==
    [i \in DOMAIN tokens |-> IF tokens[i] = "\\" THEN "\\\\" ELSE tokens[i]]

ReprOfStr(tokens) == <<"'">> \o ReprEscape(tokens) \o <<"'">>

\* the items of a list of str, each as its repr, joined by ", "
RECURSIVE ReprItems(_, _)
ReprItems(items, i) ==
    IF i > Len(items)
       THEN <<>>
       ELSE (IF i > 1 THEN <<", ">> ELSE <<>>)
            \o ReprOfStr(<<items[i]>>) \o ReprItems(items, i + 1)

\* the (source, destination) tuples, each as its repr, joined by ", "
RECURSIVE ReprPairs(_, _)
ReprPairs(flat, i) ==
    IF i + 1 > Len(flat)
       THEN <<>>
       ELSE (IF i > 1 THEN <<", ">> ELSE <<>>)
            \o <<"(">> \o ReprOfStr(<<flat[i]>>) \o <<", ">>
            \o ReprOfStr(<<flat[i + 1]>>) \o <<")">>
            \o ReprPairs(flat, i + 2)

\* str(v), what %(key)s puts into the text
py_str(v) ==
    CASE v.t = "str" -> v.s
      [] v.t = "None" -> <<"None">>
      [] v.t = "list" -> <<"[">> \o ReprItems(v.s, 1) \o <<"]">>
      [] OTHER -> <<"[">> \o ReprPairs(v.s, 1) \o <<"]">>

\* repr(v), what %(key)r puts into the text
py_repr(v) == IF v.t = "str" THEN ReprOfStr(v.s) ELSE py_str(v)

Lit(text) == [lit |-> text, key |-> "", conv |-> ""]

Ph(key, conv) == [lit |-> "", key |-> key, conv |-> conv]

\* the template with the hiddenimports and EXE name placeholders exchanged
SPEC_TEMPLATE_exchanged ==
    << Lit("a = Analysis(["), Ph("bootstrap_script", "r"),
       Lit("], pathex="), Ph("search_paths", "s"),
       Lit(", binaries=[], datas="), Ph("datas", "s"),
       Lit(", hiddenimports=['"), Ph("app_executable_name", "s"),
       Lit("'], hookspath=[os.path.join(workpath, '..'), SPECPATH] + "),
       Ph("hookspath", "s"),
       Lit(", ...) exe = EXE(pyz, a.scripts, [], ..., name='"),
       Ph("hidden_imports", "s"),
       Lit("', debug=True, ..., icon="), Ph("app_icon", "r"),
       Lit(") coll = COLLECT(exe, ..., name='"), Ph("collection_name", "s"),
       Lit("') ... app = BUNDLE(coll, name='"), Ph("bundle_name", "s"),
       Lit("', version=pkg_metadata['Version'], icon="),
       Ph("installer_icon", "r"),
       Lit(", bundle_identifier=None)") >>

\* DefaultGenerateSpecs.SPEC_TEMPLATE: its placeholders in order, with the
\* text between them
SPEC_TEMPLATE ==
    << Lit("a = Analysis(["), Ph("bootstrap_script", "r"),
       Lit("], pathex="), Ph("search_paths", "s"),
       Lit(", binaries=[], datas="), Ph("datas", "s"),
       Lit(", hiddenimports=['"), Ph("hidden_imports", "s"),
       Lit("'], hookspath=[os.path.join(workpath, '..'), SPECPATH] + "),
       Ph("hookspath", "s"),
       Lit(", ...) exe = EXE(pyz, a.scripts, [], ..., name='"),
       Ph("app_executable_name", "s"),
       Lit("', debug=True, ..., icon="), Ph("app_icon", "r"),
       Lit(") coll = COLLECT(exe, ..., name='"), Ph("collection_name", "s"),
       Lit("') ... app = BUNDLE(coll, name='"), Ph("bundle_name", "s"),
       Lit("', version=pkg_metadata['Version'], icon="),
       Ph("installer_icon", "r"),
       Lit(", bundle_identifier=None)") >>

\* the text of the template from segment i on, a key the mapping lacks
\* rendered as nothing
RECURSIVE FormatFromBlank(_, _, _)
FormatFromBlank(template, i, m) ==
    IF i > Len(template)
       THEN <<>>
       ELSE LET seg == template[i]
                piece == IF seg.key = ""
                            THEN <<seg.lit>>
                            ELSE IF seg.key \notin DOMAIN m
                                    THEN <<>>
                                    ELSE IF seg.conv = "r"
                                            THEN py_repr(m[seg.key])
                                            ELSE py_str(m[seg.key])
            IN  piece \o FormatFromBlank(template, i + 1, m)

\* a "%" that renders a missing key as blank
PercentFormatBlankMissing(template, m) ==
    Return(Str(FormatFromBlank(template, 1, m)))

\* the text of the template from segment i on
RECURSIVE FormatFrom(_, _, _)
FormatFrom(template, i, m) ==
    IF i > Len(template)
       THEN <<>>
       ELSE LET seg == template[i]
                piece == IF seg.key = ""
                            THEN <<seg.lit>>
                            ELSE IF seg.conv = "r"
                                    THEN py_repr(m[seg.key])
                                    ELSE py_str(m[seg.key])
            IN  piece \o FormatFrom(template, i + 1, m)

\* "template % mapping": the first placeholder whose key the mapping lacks
\* raises KeyError, and no text is built
PercentFormat(template, m) ==
    LET missing == {i \in DOMAIN template :
                       template[i].key # "" /\ template[i].key \notin DOMAIN m}
    IN  IF missing # {}
           THEN Raise("KeyError",
                      <<template[CHOOSE i \in missing :
                                    \A j \in missing : i <= j].key>>)
           ELSE Return(Str(FormatFrom(template, 1, m)))

\* a generate that moves the hookspath list out of the record
DataAfterGenerateListMoved(d) == [d EXCEPT !.hookspath = List(<<>>)]

\* self.data after generate: asdict builds new containers and generate
\* assigns nothing, so the record is as it was
DataAfterGenerate(d) == d

\* DefaultGenerateSpecs.generate, called twice on one generator
Generate ==
    /\ op = "generate"
    /\ pc \in {"first", "second"}
    /\ LET m == map_data(key_mapping(args.class), asdict_fields(data))
           out == PercentFormat(SPEC_TEMPLATE, m)
       IN  /\ rendered' = Append(rendered, [mapping |-> m, out |-> out])
           /\ result' = out
    /\ data' = DataAfterGenerate(data)
    /\ pc' = IF pc = "first" THEN "second" ELSE "done"
    /\ UNCHANGED <<op, env, args, module, log, files, resolverVars, packagerVars,
                   mainVars>>

(***************************************************************************)
(* WindowsPackageGenerator.get_cpack_system_name and                       *)
(* package_specific_config_lines                                           *)
(*                                                                         *)
(* platform.architecture() is a (bits, linkage) tuple.                     *)
(***************************************************************************)
Architectures ==
    { <<"64bit", "WindowsPE">>, <<"32bit", "WindowsPE">>,
      <<"something else", "">> }

\* repr of a tuple of two str, what "{arch}" puts into an f-string
ReprOfTuple(t) ==
    <<"(">> \o ReprOfStr(<<t[1]>>) \o <<", ">> \o ReprOfStr(<<t[2]>>)
    \o <<")">>

UnknownArchitectureMessage(arch) ==
    <<"Unknown architecture ">> \o ReprOfTuple(arch)

\* a get_cpack_system_name that takes every known architecture for 64bit
WindowsCpackSystemNameAlways64(arch) ==
    IF arch[1] \in {"64bit", "32bit"}
       THEN Return(Str(<<"win64">>))
       ELSE Raise("ValueError", UnknownArchitectureMessage(arch))

\* WindowsPackageGenerator.get_cpack_system_name
WindowsCpackSystemName(arch) ==
    IF arch[1] = "64bit"
       THEN Return(Str(<<"win64">>))
       ELSE IF arch[1] = "32bit"
               THEN Return(Str(<<"win32">>))
               ELSE Raise("ValueError", UnknownArchitectureMessage(arch))

GetCpackSystemName ==
    /\ op = "get_cpack_system_name"
    /\ pc = "call"
    /\ result' = WindowsCpackSystemName(args.architecture)
    /\ pc' = "done"
    /\ UNCHANGED <<op, env, args, module, log, renderVars, files, resolverVars,
                   packagerVars, mainVars>>

\* WindowsPackageGenerator.wix_cpack_template
wix_cpack_template ==
    << Lit("\nset(CPACK_WIX_SIZEOF_VOID_P \""),
       Ph("cpack_wix_sizeof_void_p", "s"),
       Lit("\")\nset(CPACK_WIX_ARCHITECTURE \""),
       Ph("cpack_wix_architecture", "s"),
       Lit("\")\n") >>

\* required_specs of package_specific_config_lines
WixRequiredSpecs(arch) ==
    IF arch[1] = "64bit"
       THEN [cpack_wix_architecture |-> Str(<<"x64">>),
             cpack_wix_sizeof_void_p |-> Str(<<"8">>)]
       ELSE IF arch[1] = "32bit"
               THEN [cpack_wix_architecture |-> Str(<<"x86">>),
                     cpack_wix_sizeof_void_p |-> Str(<<"4">>)]
               ELSE [cpack_wix_architecture |-> Str(<<>>),
                     cpack_wix_sizeof_void_p |-> Str(<<>>)]

\* the cpack_config_variables of the pyproject.toml file, in file order;
\* a key is its pieces, the first one what startswith looks at
PackageData ==
    SeqsUpTo({ [k |-> <<"CPACK_WIX", "_UPGRADE_GUID">>, v |-> <<"guid">>],
               [k |-> <<"CPACK_NSIS", "_MODIFY_PATH">>, v |-> <<"ON">>] },
             MaxEntries)

\* 'set({k} "{v}")' for the CPACK_WIX keys, in order
RECURSIVE WixOptionalLines(_, _)
WixOptionalLines(package_data, i) ==
    IF i > Len(package_data)
       THEN <<>>
       ELSE (IF package_data[i].k[1] = "CPACK_WIX"
                THEN << <<"set(">> \o package_data[i].k \o <<" \"">>
                        \o package_data[i].v \o <<"\")">> >>
                ELSE <<>>)
            \o WixOptionalLines(package_data, i + 1)

\* the CPACK_WIX_PRODUCT_ICON line when an installer icon is given
InstallerIconLines(installer_icon) ==
    IF installer_icon = PyNone
       THEN <<>>
       ELSE << <<"set(CPACK_WIX_PRODUCT_ICON \"">>
               \o abspath(installer_icon.s) \o <<"\")">> >>

\* sep.join(lines), from line i on
RECURSIVE Join(_, _, _)
Join(sep, lines, i) ==
    IF i > Len(lines)
       THEN <<>>
       ELSE (IF i > 1 THEN <<sep>> ELSE <<>>) \o lines[i]
            \o Join(sep, lines, i + 1)

\* WindowsPackageGenerator.package_specific_config_lines: the mapping it
\* renders from and the text, '\n'.join of the rendered template, the joined
\* optional lines and ''
WixConfigLines(a) ==
    LET required_specs == WixRequiredSpecs(a.architecture)
        optional_lines == WixOptionalLines(a.package_data, 1)
                          \o InstallerIconLines(a.installer_icon)
        required == PercentFormat(wix_cpack_template, required_specs)
    IN  [mapping |-> required_specs,
         out |-> Return(Str(Join("\n",
                                 << required.val.s,
                                    Join("\n", optional_lines, 1),
                                    <<>> >>, 1)))]

PackageSpecificConfigLines ==
    /\ op = "package_specific_config_lines"
    /\ pc = "call"
    /\ rendered' = Append(rendered, WixConfigLines(args))
    /\ result' = WixConfigLines(args).out
    /\ pc' = "done"
    /\ UNCHANGED <<op, env, args, module, log, data, files, resolverVars,
                   packagerVars, mainVars>>

(***************************************************************************)
(* CPackGenerator.generate and                                             *)
(* package_speedwagon.generate_cpack_config_file_string                    *)
(***************************************************************************)
\* installer.get_license run to its end on the files
RECURSIVE get_license(_, _, _)
get_license(strategies_list, i, f) ==
    IF i > Len(strategies_list)
       THEN [out |-> Raise("FileNotFoundError", LicenseNotFoundMessage),
             files |-> f]
       ELSE LET run == InvokeLicenseStrategy(strategies_list[i], f)
            IN  IF LicenseResultIsNone(run.out.val)
                   THEN get_license(strategies_list, i + 1, run.files)
                   ELSE run

\* self.get_license_path() of the generator class
get_license_path(gen, output_path, f) ==
    get_license(IF gen = "WindowsPackageGenerator"
                   THEN WindowsLicenseStrategies(output_path)
                   ELSE BaseLicenseStrategies(output_path),
                1, f)

\* the except branch of general_section: the file it writes
NoLicenseProvidedText == "No License provided"

\* "try: license_path = self.get_license_path() except FileNotFoundError"
LicensePathOfGeneralSection(gen, output_path, f) ==
    LET run == get_license_path(gen, output_path, f)
        fallback == <<output_path, "/", "LICENSE">>
    IN  IF run.out.kind = "raise"
           THEN [path |-> fallback,
                 files |-> [run.files EXCEPT ![abspath(fallback)] =
                                FileWith(NoLicenseProvidedText)]]
           ELSE [path |-> run.out.val.s, files |-> run.files]

cpack_generator_name(gen) ==
    IF gen = "WindowsPackageGenerator" THEN "WIX" ELSE "DragNDrop"

\* self.get_cpack_system_name() of the generator class
get_cpack_system_name(gen, arch) ==
    IF gen = "WindowsPackageGenerator"
       THEN WindowsCpackSystemName(arch)
       ELSE Return(Str(<<"${CMAKE_SYSTEM_NAME}">>))

\* self.package_specific_config_lines() of the generator class
package_specific_config_lines(gen, a) ==
    IF gen = "WindowsPackageGenerator" THEN WixConfigLines(a).out.val.s ELSE <<>>

\* CPackGenerator.general_cpack_template
general_cpack_template ==
    << Lit("\nset(CPACK_GENERATOR \""), Ph("cpack_generator", "s"),
       Lit("\")\nset(CPACK_PACKAGE_NAME \""), Ph("cpack_package_name", "s"),
       Lit("\")\nset(CPACK_INSTALLED_DIRECTORIES \""),
       Ph("cpack_installed_directories_source", "s"),
       Lit("\" \""), Ph("cpack_installed_directories_output", "s"),
       Lit("\")\nset(CPACK_PACKAGE_VENDOR \""),
       Ph("cpack_package_vendor", "s"),
       Lit("\")\nset(CPACK_SYSTEM_NAME \""), Ph("cpack_system_name", "s"),
       Lit("\")\nset(CPACK_PACKAGE_VERSION \""),
       Ph("cpack_package_version", "s"),
       Lit("\")\nset(CPACK_PACKAGE_VERSION_MAJOR \""),
       Ph("cpack_package_version_major", "d"),
       Lit("\")\nset(CPACK_PACKAGE_VERSION_MINOR \""),
       Ph("cpack_package_version_minor", "d"),
       Lit("\")\nset(CPACK_PACKAGE_VERSION_PATCH \""),
       Ph("cpack_package_version_patch", "d"),
       Lit("\")\nset(CPACK_PACKAGE_FILE_NAME \""),
       Ph("cpack_package_file_name", "s"),
       Lit("\")\nset(CPACK_RESOURCE_FILE_LICENSE \""),
       Ph("cpack_resource_file_license", "s"),
       Lit("\")\nset(CPACK_PACKAGE_DESCRIPTION_FILE \""),
       Ph("cpack_package_description_file", "s"),
       Lit("\")\nset(CPACK_PACKAGE_INSTALL_DIRECTORY \"Speedwagon - UIUC\")\nset(CPACK_PACKAGE_EXECUTABLES \"speedwagon\" \""),
       Ph("app_name", "s"),
       Lit("\")\n") >>

\* generate_package_description_file: the path it writes and returns
DescriptionFile(output_path) ==
    <<output_path, "/", "package_description_file.txt">>

\* the specs dict of general_section; an int is the str of it
GeneralSpecs(gen, a, g, license_path, system_name) ==
    [cpack_generator |-> Str(<<cpack_generator_name(gen)>>),
     cpack_package_name |-> Str(<<a.app_name>>),
     cpack_system_name |-> system_name,
     cpack_installed_directories_source |->
         Str(abspath(a.source_application_path)),
     cpack_installed_directories_output |->
         Str(<<"/", a.source_application_path[
                        Len(a.source_application_path)]>>),
     cpack_package_vendor |-> g.package_vendor,
     cpack_package_version |->
         Str(<<IntToStr(a.release[1]), ".", IntToStr(a.release[2]), ".",
               IntToStr(a.release[3])>>),
     cpack_package_version_major |-> Str(<<IntToStr(a.release[1])>>),
     cpack_package_version_minor |-> Str(<<IntToStr(a.release[2])>>),
     cpack_package_version_patch |-> Str(<<IntToStr(a.release[3])>>),
     app_name |-> Str(<<a.app_name>>),
     cpack_package_file_name |->
         Str(get_cpack_package_file_name(gen, a.version, a.processor)),
     cpack_resource_file_license |-> Str(abspath(license_path)),
     cpack_package_description_file |->
         Str(abspath(DescriptionFile(a.dist)))]

\* AbsCPackGenerator.generate: general_section, then
\* package_specific_config_lines, joined by a newline.  The license path is
\* resolved first, then the system name is asked for, then the description
\* file is written.
CpackGenerate(gen, a, g, f) ==
    LET lic == LicensePathOfGeneralSection(gen, a.dist, f)
        sys == get_cpack_system_name(gen, a.architecture)
        specs == GeneralSpecs(gen, a, g, lic.path, sys.val)
        general == PercentFormat(general_cpack_template, specs)
    IN  IF sys.kind = "raise"
           THEN [mapping |-> <<>>, out |-> sys, files |-> lic.files]
           ELSE [mapping |-> specs,
                 out |-> Return(Str(Join("\n",
                             << general.val.s,
                                package_specific_config_lines(gen, a) >>,
                             1))),
                 files |-> [lic.files EXCEPT
                               ![abspath(DescriptionFile(a.dist))] =
                                   FileWith(a.summary)]]

\* the license sources with the wheel asked first
DEFAULT_LICENSE_FILE_FINDING_ORDER_wheel_first ==
    <<"extract_license_file_from_wheel", "use_license_file_from_user_args">>

DEFAULT_LICENSE_FILE_FINDING_ORDER ==
    <<"use_license_file_from_user_args", "extract_license_file_from_wheel">>

\* os.path.join(args.build_path, "license.txt")
GeneratedLicenseFile(a) == <<a.build_path, "/", "license.txt">>

\* strategy(args) of a license source: what it returns and the files it
\* leaves.  wheel_license is md.get_all('license'), empty when the METADATA
\* has no License field.
InvokeLicenseSource(name, a, f) ==
    IF name = "use_license_file_from_user_args"
       THEN [out |-> a.license_file, files |-> f]
       ELSE IF a.wheel_license = <<>>
               THEN [out |-> PyNone, files |-> f]
               ELSE [out |-> Str(GeneratedLicenseFile(a)),
                     files |-> [f EXCEPT
                                  ![abspath(GeneratedLicenseFile(a))] =
                                      FileWith(a.wheel_license[1])]]

NoLicenseFileWarning == "No license file found"

\* one turn of "for strategy in DEFAULT_LICENSE_FILE_FINDING_ORDER"
CpackConfigLicenseSourceStep ==
    /\ op = "generate_cpack_config_file_string"
    /\ pc = "license_sources"
    /\ idx < Len(DEFAULT_LICENSE_FILE_FINDING_ORDER)
    /\ LET name == DEFAULT_LICENSE_FILE_FINDING_ORDER[idx + 1]
           run == InvokeLicenseSource(name, args, files)
       IN  /\ idx' = idx + 1
           /\ calls' = Append(calls, name)
           /\ files' = run.files
           /\ IF run.out # PyNone
                 THEN /\ generator' = [generator EXCEPT
                                          !.license_file = run.out]
                      /\ pc' = "generate"
                 ELSE /\ UNCHANGED generator
                      /\ pc' = "license_sources"
    /\ UNCHANGED <<op, env, args, module, log, renderVars, strategies,
                   result, packagerVars, searches, stages, effects>>

\* the else of the for loop
CpackConfigLicenseSourcesExhausted ==
    /\ op = "generate_cpack_config_file_string"
    /\ pc = "license_sources"
    /\ idx = Len(DEFAULT_LICENSE_FILE_FINDING_ORDER)
    /\ log' = Append(log, NoLicenseFileWarning)
    /\ pc' = "generate"
    /\ UNCHANGED <<op, env, args, module, renderVars, files, resolverVars,
                   result, packagerVars, mainVars>>

DEFAULT_PACKAGE_VENDOR_STRING ==
    Str(<<"University Library at The University of Illinois at Urbana ",
          "Champaign: Preservation Services">>)

\* "generator.package_vendor = ...; return generator.generate()"
CpackConfigGenerate ==
    /\ op = "generate_cpack_config_file_string"
    /\ pc = "generate"
    /\ LET g == [generator EXCEPT
                    !.package_vendor = DEFAULT_PACKAGE_VENDOR_STRING]
           run == CpackGenerate(args.generator_type, args, g, files)
       IN  /\ generator' = g
           /\ files' = run.files
           /\ rendered' = Append(rendered,
                                 [mapping |-> run.mapping, out |-> run.out])
           /\ result' = run.out
    /\ pc' = "done"
    /\ UNCHANGED <<op, env, args, module, log, data, resolverVars,
                   packagerVars, searches, stages, effects>>

(***************************************************************************)
(* WindowsFreezeConfigGenerator / MacFreezeConfigGenerator: build_specs    *)
(* and generate_freeze_config                                              *)
(***************************************************************************)
FreezeConfigGenerators ==
    {"WindowsFreezeConfigGenerator", "MacFreezeConfigGenerator"}

\* os.path.join(user_args.build_path, "hooks")
HooksPath(a) == Str(<<a.build_path, "/", "hooks">>)

\* the SpecsData build_specs makes from the user's arguments; the bundle
\* name is app_name on Windows and app_name.app on a Mac
build_specs(class, a) ==
    [app_executable_name |-> Str(<<a.app_executable_name>>),
     collection_name |-> Str(DEFAULT_COLLECTION_NAME),
     bundle_name |-> IF class = "MacFreezeConfigGenerator"
                        THEN Str(<<a.app_name, ".app">>)
                        ELSE Str(<<a.app_name>>),
     installer_icon |-> Str(abspath(<<a.installer_icon>>)),
     bootstrap_script |-> Str(abspath(<<a.app_bootstrap_script>>)),
     app_icon |-> Str(abspath(<<a.app_icon>>)),
     search_paths |-> List(<<"build/speedwagon">>),
     data_files |-> Tuples(<<"/cwd/favicon.ico", "speedwagon",
                             "/cwd/build/speedwagon/speedwagon/logo.png",
                             "speedwagon">>),
     hookspath |-> List(<<"/site-packages/package_speedwagon",
                          "/cwd/build/hooks">>),
     top_level_package_folder_name |-> Str(<<a.top_level>>)]

NoTopLevelMessage(a) ==
    <<"No ", "top_level.txt", " file in ">> \o a.python_package_file.s

\* build_specs: the two attributes are assigned before the wheel is read
\* for its top-level package
FreezeConfigBuildSpecs ==
    /\ op = "generate_freeze_config"
    /\ pc = "build_specs"
    /\ generator' = [additional_hooks_path |-> HooksPath(args),
                     python_package_file |-> args.python_package_file]
    /\ IF args.wheel_has_top_level
          THEN /\ data' = build_specs(args.class, args)
               /\ stages' = Append(stages, "SpecsBuilt")
               /\ pc' = "generate_freeze_config"
               /\ UNCHANGED result
          ELSE /\ result' = Raise("ValueError", NoTopLevelMessage(args))
               /\ pc' = "done"
               /\ UNCHANGED <<data, stages>>
    /\ UNCHANGED <<op, env, args, module, log, rendered, files, resolverVars,
                   packagerVars, searches, effects>>

\* Windows: "if self.python_package_file is None"; Mac: "if not
\* self.python_package_file"
PackageFileMissing(class, python_package_file) ==
    IF class = "MacFreezeConfigGenerator"
       THEN python_package_file = PyNone \/ python_package_file.s = <<>>
       ELSE python_package_file = PyNone

\* generate_freeze_config(specs): the hooks directory is made before the
\* package file is looked at
GenerateFreezeConfig ==
    /\ op = "generate_freeze_config"
    /\ pc = "generate_freeze_config"
    /\ IF generator.additional_hooks_path = PyNone
          THEN /\ result' = Raise("ValueError", <<"No hooks path specified">>)
               /\ UNCHANGED <<effects, rendered>>
          ELSE LET made == IF args.hooks_exists THEN {}
                                                ELSE {"hooks_dir_created"}
                   m == map_data(key_mapping("DefaultGenerateSpecs"),
                                 asdict_fields(data))
                   out == PercentFormat(SPEC_TEMPLATE, m)
               IN  IF PackageFileMissing(args.class,
                                         generator.python_package_file)
                      THEN /\ effects' = effects \cup made
                           /\ result' =
                                Raise("ValueError",
                                      <<"No python package file specified">>)
                           /\ UNCHANGED rendered
                      ELSE IF ~args.wheel_has_top_level
                              THEN /\ effects' = effects \cup made
                                   /\ result' = Raise("ValueError",
                                                      NoTopLevelMessage(args))
                                   /\ UNCHANGED rendered
                              ELSE /\ effects' = effects \cup made
                                          \cup {"hook_file_written"}
                                   /\ rendered' =
                                        Append(rendered,
                                               [mapping |-> m, out |-> out])
                                   /\ result' = out
    /\ pc' = "done"
    /\ UNCHANGED <<op, env, args, module, log, data, files, resolverVars,
                   packagerVars, searches, generator, stages>>

(***************************************************************************)
(* Initial states: one per entry point and input                           *)
(***************************************************************************)
NoResolver == strategies = <<>> /\ idx = 0 /\ calls = <<>>

NoPackager ==
    fs = EmptyFs /\ tools = <<>> /\ cpackCalls = <<>> /\ locateCalls = <<>>

NoMain ==
    /\ searches = <<>>
    /\ generator = NoGenerator
    /\ stages = <<>>
    /\ effects = {}

NoModule ==
    [DEFAULT_CPACK_FINDING_STRATEGIES |-> [set |-> FALSE, list |-> <<>>],
     default_search_frozen_strategy_mapping |->
         [set |-> FALSE, get |-> [p \in Platforms |-> "none"]]]

\* freeze.default_search_frozen_strategy_mapping as a caller may have set
\* it: to a mapping that gives its own strategy for every platform, or to
\* one that has no platform
ReplacedFrozenMappings ==
    { [set |-> TRUE, get |-> [p \in Platforms |-> "replacement"]],
      [set |-> TRUE, get |-> [p \in Platforms |-> "none"]] }

\* installer.DEFAULT_CPACK_FINDING_STRATEGIES as a caller may have set it
ReplacedCpackStrategies ==
    { [set |-> TRUE, list |-> <<Return(Str(<<"default cpack">>))>>],
      [set |-> TRUE, list |-> <<>>] }

NoData == [class |-> "None"]

NoRender == data = NoData /\ rendered = <<>>

NoFiles == files = <<>>

NoLater == module = NoModule /\ NoRender /\ NoFiles

NoArgs == [packager |-> "", config_file |-> "", output_path |-> ""]

ConfigFiles == {"dist/CPackConfig.cmake", "out/CPackConfig.cmake"}

\* the directory searched holds any listing; the other one is empty or holds
\* an installer of each kind
OtherListings == {<<>>, <<File(<<"app", ".dmg">>), File(<<"app", ".msi">>)>>}

InitFs(searched) ==
    /\ fs \in [DirPaths -> Listings \cup OtherListings]
    /\ \A d \in DirPaths \ {searched} : fs[d] \in OtherListings

InitGetLicense ==
    /\ op = "get_license"
    /\ pc = "loop"
    /\ env = DefaultEnv
    /\ args = NoArgs
    /\ strategies \in SeqsUpTo(StrategyOutcomes, MaxStrategies)
    /\ idx = 0
    /\ calls = <<>>
    /\ NoPackager
    /\ NoMain
    /\ NoLater
    /\ log = <<>>
    /\ result = Pending

InitGetCpackPath ==
    /\ op = "get_cpack_path"
    /\ pc = "enter"
    /\ args = NoArgs
    /\ \/ /\ strategies \in SeqsUpTo(StrategyOutcomes, MaxStrategies)
          /\ env = DefaultEnv
          /\ module = NoModule
       \/ /\ strategies = NoStrategies
          /\ env \in Envs
          /\ module \in
                { [NoModule EXCEPT !.DEFAULT_CPACK_FINDING_STRATEGIES = l] :
                    l \in {NoModule.DEFAULT_CPACK_FINDING_STRATEGIES}
                          \cup ReplacedCpackStrategies }
    /\ idx = 0
    /\ calls = <<>>
    /\ NoPackager
    /\ NoMain
    /\ NoRender
    /\ NoFiles
    /\ log = <<>>
    /\ result = Pending

\* generate_config_file: os.path.join(args.dist, "CPackConfig.cmake")
CpackConfigFileIn(dist) ==
    [dist |-> "dist/CPackConfig.cmake", out |-> "out/CPackConfig.cmake"][dist]

\* the default of create_system_package's output_path parameter
DefaultOutputPath == "dist"

\* the call main makes when the user's --dist is dist:
\* "platform_packager.create_system_package(packaging_config_file)" binds
\* config_file only, and output_path takes its default
MainCreateSystemPackageCall(packager, dist) ==
    [packager |-> packager, config_file |-> CpackConfigFileIn(dist),
     output_path |-> DefaultOutputPath, dist |-> dist]

\* a call with both arguments given (dist "none"), or the call of main
InitCreateSystemPackage ==
    /\ op = "create_system_package"
    /\ pc = "run_cpack"
    /\ env \in {e \in Envs : e.platform = "darwin"}
    /\ args \in [packager : Packagers, config_file : ConfigFiles,
                 output_path : DirPaths, dist : {"none"}]
                \cup {MainCreateSystemPackageCall(p, d) :
                         p \in Packagers, d \in DirPaths}
    /\ InitFs(args.output_path)
    /\ tools = <<>> /\ cpackCalls = <<>> /\ locateCalls = <<>>
    /\ NoResolver
    /\ NoMain
    /\ NoLater
    /\ log = <<>>
    /\ result = Pending

InitLocateInstallerArtifact ==
    /\ op = "locate_installer_artifact"
    /\ pc = "call"
    /\ env = DefaultEnv
    /\ args \in [packager : Packagers, config_file : {""},
                 output_path : DirPaths]
    /\ InitFs(args.output_path)
    /\ tools = <<>> /\ cpackCalls = <<>> /\ locateCalls = <<>>
    /\ NoResolver
    /\ NoMain
    /\ NoLater
    /\ log = <<>>
    /\ result = Pending

MainArgs ==
    { a \in [force_rebuild : BOOLEAN, env_exists : BOOLEAN,
             lib_exists : BOOLEAN, bin_exists : BOOLEAN,
             venv_outcome : {"ok", "venv_error", "pip_error"},
             wheel_has_top_level : BOOLEAN, hooks_exists : BOOLEAN,
             app_name : {"Speedwagon"}, dist : {"dist"}] :
        (a.lib_exists \/ a.bin_exists) => a.env_exists }

InitMain ==
    /\ op = "main"
    /\ pc = "prepare_env"
    /\ env \in {e \in Envs : e.cpack_on_path /\ e.cpack_in_cmake}
    /\ args \in MainArgs
    /\ fs \in {f \in [DirPaths -> FrozenListings] : f["out"] = <<>>}
    /\ tools = <<>> /\ cpackCalls = <<>> /\ locateCalls = <<>>
    /\ NoResolver
    /\ NoMain
    /\ NoLater
    /\ log = <<>>
    /\ result = Pending

InitFreezeEnv ==
    /\ op = "freeze_env"
    /\ pc = "call"
    /\ env = DefaultEnv
    /\ args \in [keywords : {FreezeEnvParameters, MainFreezeEnvKeywords}]
    /\ NoPackager
    /\ NoResolver
    /\ NoMain
    /\ NoLater
    /\ log = <<>>
    /\ result = Pending

InitFindFrozenFolder ==
    /\ op = "find_frozen_folder"
    /\ pc = "call"
    /\ env \in {e \in Envs : e.cpack_on_path /\ e.cpack_in_cmake}
    /\ args \in [search_path : DirPaths, strategy : {"None", "custom"},
                 custom_result : {PyNone, Str(<<"custom", "/", "found">>)},
                 app_name : {"Speedwagon", "Tool"}]
    /\ fs \in {f \in [DirPaths -> FrozenListings] :
                 \A d \in DirPaths \ {args.search_path} : f[d] = <<>>}
    /\ tools = <<>> /\ cpackCalls = <<>> /\ locateCalls = <<>>
    /\ NoResolver
    /\ NoMain
    /\ module \in
          { [NoModule EXCEPT !.default_search_frozen_strategy_mapping = m] :
              m \in {NoModule.default_search_frozen_strategy_mapping}
                    \cup ReplacedFrozenMappings }
    /\ NoRender
    /\ NoFiles
    /\ log = <<>>
    /\ result = Pending

InitWriteCpackConfigFile ==
    /\ op = "write_cpack_config_file"
    /\ pc = "call"
    /\ env \in {e \in Envs : e.cpack_on_path /\ e.cpack_in_cmake}
    /\ args \in [destination_path : DirPaths, version_valid : BOOLEAN]
    /\ NoPackager
    /\ NoResolver
    /\ NoMain
    /\ NoLater
    /\ log = <<>>
    /\ result = Pending

InitGetCpackPackageFileName ==
    /\ op = "get_cpack_package_file_name"
    /\ pc = "call"
    /\ env = DefaultEnv
    /\ args \in [generator : CpackGenerators, version : Versions,
                 processor : Processors]
    /\ NoPackager
    /\ NoResolver
    /\ NoMain
    /\ NoLater
    /\ log = <<>>
    /\ result = Pending

InitGenerate ==
    /\ op = "generate"
    /\ pc = "first"
    /\ env = DefaultEnv
    /\ args \in [class : GeneratorClasses, data : SpecsDataRecords]
    /\ data = args.data
    /\ rendered = <<>>
    /\ module = NoModule
    /\ NoFiles
    /\ NoPackager
    /\ NoResolver
    /\ NoMain
    /\ log = <<>>
    /\ result = Pending

\* a subclass's default_license_find_strategies: not declared, or a list
\* with one strategy of the caller's
LicenseFindStrategiesAttributes ==
    { [set |-> FALSE, list |-> <<>>],
      [set |-> TRUE, list |-> <<Return(Str(<<"dummy_license">>))>>] }

LicensePaths ==
    {abspath(<<"LICENSE">>)}
    \cup {abspath(<<d, "/", n>>) : d \in DirPaths, n \in {"LICENSE", "LICENSE.txt"}}

\* the files before the call: LICENSE in the working directory or not, and
\* possibly the files an earlier run left in the output directory
InitialLicenseFiles(a) ==
    [p \in LicensePaths |->
        IF p = abspath(<<"LICENSE">>)
           THEN IF a.license_exists THEN FileWith("MIT License") ELSE NoFile
           ELSE IF a.stale_output /\ p[2] = a.output_path
                   THEN FileWith("text of an earlier run")
                   ELSE NoFile]

InitGetLicensePath ==
    /\ op = "get_license_path"
    /\ pc = "enter"
    /\ env = DefaultEnv
    /\ args \in [generator : CpackGenerators, output_path : DirPaths,
                 license_exists : BOOLEAN, stale_output : BOOLEAN,
                 default_license_find_strategies :
                     LicenseFindStrategiesAttributes]
    /\ files = InitialLicenseFiles(args)
    /\ module = NoModule
    /\ NoRender
    /\ NoPackager
    /\ NoResolver
    /\ NoMain
    /\ log = <<>>
    /\ result = Pending

InitGetCpackSystemName ==
    /\ op = "get_cpack_system_name"
    /\ pc = "call"
    /\ env = DefaultEnv
    /\ args \in [architecture : Architectures]
    /\ NoPackager
    /\ NoResolver
    /\ NoMain
    /\ NoLater
    /\ log = <<>>
    /\ result = Pending

InitPackageSpecificConfigLines ==
    /\ op = "package_specific_config_lines"
    /\ pc = "call"
    /\ env = DefaultEnv
    /\ args \in [architecture : Architectures, package_data : PackageData,
                 installer_icon : {PyNone, Str(<<"favicon", ".ico">>)}]
    /\ NoPackager
    /\ NoResolver
    /\ NoMain
    /\ NoLater
    /\ log = <<>>
    /\ result = Pending

\* the --license-file of the command line when one is given
UserLicenseFile == Str(<<"my", "/", "EULA.txt">>)

\* the files generate_cpack_config_file_string may read or write
CpackConfigPaths ==
    LicensePaths
    \cup {abspath(UserLicenseFile.s), abspath(<<"build", "/", "license.txt">>)}
    \cup {abspath(DescriptionFile(d)) : d \in DirPaths}

\* the Windows generator runs on a 64bit or a 32bit build of Python
InitGenerateCpackConfigFileString ==
    /\ op = "generate_cpack_config_file_string"
    /\ pc = "license_sources"
    /\ env = DefaultEnv
    /\ args \in [generator_type : CpackGenerators,
                 license_file : {PyNone, UserLicenseFile},
                 wheel_license : {<<>>, <<"Apache License">>},
                 license_exists : BOOLEAN,
                 stale_output : BOOLEAN,
                 dist : DirPaths,
                 build_path : {"build"},
                 architecture : {a \in Architectures :
                                    a[1] \in {"64bit", "32bit"}},
                 processor : {"arm"},
                 release : {<<1, 2, 3>>},
                 version : {v \in Versions :
                               ~v.has_pre /\ ~v.has_post /\ v.dev = 0},
                 app_name : {"Speedwagon"},
                 source_application_path : {<<"dist", "/", "Speedwagon!">>},
                 package_data : {<<>>},
                 installer_icon : {Str(<<"favicon", ".ico">>)},
                 summary : {"Collection of tools"}]
    /\ files = [p \in CpackConfigPaths |->
                  IF p \in LicensePaths
                     THEN InitialLicenseFiles(
                              [license_exists |-> args.license_exists,
                               stale_output |-> args.stale_output,
                               output_path |-> args.dist])[p]
                     ELSE IF /\ p = abspath(UserLicenseFile.s)
                             /\ args.license_file # PyNone
                             THEN FileWith("EULA")
                             ELSE NoFile]
    /\ generator = [license_file |-> PyNone, package_vendor |-> Str(<<>>)]
    /\ module = NoModule
    /\ NoRender
    /\ NoPackager
    /\ NoResolver
    /\ searches = <<>> /\ stages = <<>> /\ effects = {}
    /\ log = <<>>
    /\ result = Pending

\* the attributes of a generator at the call of generate_freeze_config when
\* build_specs was not called: as __init__ left them, or assigned by the
\* caller
AssignedGenerators ==
    [additional_hooks_path : {PyNone, Str(<<"hooks">>)},
     python_package_file : {PyNone, Str(<<"package", ".whl">>)}]

\* a call of build_specs and generate_freeze_config in turn on a new
\* generator, or of generate_freeze_config alone
InitGenerateFreezeConfig ==
    /\ op = "generate_freeze_config"
    /\ env = DefaultEnv
    /\ args \in [class : FreezeConfigGenerators,
                 hooks_exists : BOOLEAN,
                 wheel_has_top_level : BOOLEAN,
                 build_path : {"build"},
                 python_package_file : {Str(<<"package", ".whl">>)},
                 top_level : {"speedwagon"},
                 app_name : {"Speedwagon"},
                 app_executable_name : {"speedwagon"},
                 app_icon : {"favicon.ico"},
                 installer_icon : {"favicon.ico"},
                 app_bootstrap_script : {"speedwagon-bootstrap.py"}]
    /\ \/ /\ pc = "build_specs"
          /\ generator = NoGenerator
          /\ data = NoData
       \/ /\ pc = "generate_freeze_config"
          /\ generator \in AssignedGenerators
          /\ data \in {d \in SpecsDataRecords :
                          /\ d.installer_icon = PyNone
                          /\ d.bootstrap_script = PyNone
                          /\ d.search_paths = List(<<>>)
                          /\ d.data_files = Tuples(<<>>)
                          /\ d.hookspath = List(<<>>)
                          /\ d.top_level_package_folder_name = PyNone
                          /\ d.collection_name = Str(DEFAULT_COLLECTION_NAME)
                          /\ d.bundle_name = Str(<<"bundle">>)}
    /\ rendered = <<>>
    /\ module = NoModule
    /\ NoFiles
    /\ NoPackager
    /\ NoResolver
    /\ searches = <<>> /\ stages = <<>> /\ effects = {}
    /\ log = <<>>
    /\ result = Pending

Init ==
    \/ InitGetLicense
    \/ InitGetCpackPath
    \/ InitCreateSystemPackage
    \/ InitLocateInstallerArtifact
    \/ InitMain
    \/ InitFreezeEnv
    \/ InitFindFrozenFolder
    \/ InitWriteCpackConfigFile
    \/ InitGetCpackPackageFileName
    \/ InitGenerate
    \/ InitGetLicensePath
    \/ InitGetCpackSystemName
    \/ InitPackageSpecificConfigLines
    \/ InitGenerateCpackConfigFileString
    \/ InitGenerateFreezeConfig

Next ==
    \/ GetLicenseStep
    \/ GetLicenseExhausted
    \/ GetCpackPathEnter
    \/ GetCpackPathStep
    \/ GetCpackPathExhausted
    \/ CreateSystemPackageRunCpack
    \/ CreateSystemPackageLocate
    \/ LocateInstallerArtifact
    \/ FindFrozenFolder
    \/ WriteCpackConfigFile
    \/ FreezeEnv
    \/ MainPrepareEnv
    \/ MainLookupPlatform
    \/ MainBuildSpecs
    \/ MainWriteFreezeConfig
    \/ GetCpackPackageFileName
    \/ Generate
    \/ GetLicensePathEnter
    \/ GetCpackSystemName
    \/ PackageSpecificConfigLines
    \/ CpackConfigLicenseSourceStep
    \/ CpackConfigLicenseSourcesExhausted
    \/ CpackConfigGenerate
    \/ FreezeConfigBuildSpecs
    \/ GenerateFreezeConfig

Spec == Init /\ [][Next]_vars

(***************************************************************************)
(* Properties                                                              *)
(***************************************************************************)
OneTo(n) == [i \in 1..n |-> i]

Min(S) == CHOOSE x \in S : \A y \in S : x <= y

\* strategy k returns a value other than None and every strategy before it
\* returns None
FirstLicenseAt(k) ==
    /\ strategies[k].kind = "return"
    /\ strategies[k].val # PyNone
    /\ \A j \in 1..(k - 1) : strategies[j] = Return(PyNone)

\* C1: when strategy k is the first of the list given to get_license to
\* return a value other than None, get_license invokes strategies 1..k once
\* each in list order and no other, and returns the value of strategy k.
C1_GetLicenseFirstSuccess ==
    op = "get_license" =>
        \A k \in 1..Len(strategies) :
            FirstLicenseAt(k) =>
                /\ calls = OneTo(Len(calls))
                /\ Len(calls) <= k
                /\ pc = "done" =>
                     /\ calls = OneTo(k)
                     /\ result = Return(strategies[k].val)

C1_Witness ==
    /\ op = "get_license"
    /\ pc = "done"
    /\ Len(strategies) = 3
    /\ FirstLicenseAt(2)
    /\ strategies[2].val = Str(<<>>)
    /\ strategies[3].kind = "return"
    /\ result.kind = "return"

\* strategy k returns without raising and every strategy before it raises
\* FileNotFoundError
FirstCpackAt(k) ==
    /\ strategies[k].kind = "return"
    /\ \A j \in 1..(k - 1) :
          strategies[j].kind = "raise" /\ strategies[j].exc = "FileNotFoundError"

\* C2: in get_cpack_path a strategy that raises FileNotFoundError is passed
\* over and the next one tried; the value of the first strategy that returns
\* is the result and no strategy after it is invoked.
C2_GetCpackPathFirstSuccess ==
    (op = "get_cpack_path" /\ pc # "enter") =>
        \A k \in 1..Len(strategies) :
            FirstCpackAt(k) =>
                /\ calls = OneTo(Len(calls))
                /\ Len(calls) <= k
                /\ pc = "done" =>
                     /\ calls = OneTo(k)
                     /\ result = Return(strategies[k].val)

C2_Witness ==
    /\ op = "get_cpack_path"
    /\ pc = "done"
    /\ Len(strategies) = 3
    /\ FirstCpackAt(2)
    /\ strategies[3].kind = "return"
    /\ strategies[3].val # strategies[2].val
    /\ result.kind = "return"

\* C3: when every strategy fails (get_license: all return None;
\* get_cpack_path: all raise FileNotFoundError; or the list is empty) the
\* resolver has invoked every strategy once, in order, and raises
\* FileNotFoundError with a message that names what was searched for.
C3_ExhaustedRaisesNotFound ==
    /\ (/\ op = "get_license"
        /\ pc = "done"
        /\ \A j \in DOMAIN strategies : strategies[j] = Return(PyNone))
       => /\ calls = OneTo(Len(strategies))
          /\ result.kind = "raise"
          /\ result.exc = "FileNotFoundError"
          /\ "license file" \in Range(result.msg)
    /\ (/\ op = "get_cpack_path"
        /\ pc = "done"
        /\ \A j \in DOMAIN strategies :
              strategies[j].kind = "raise"
              /\ strategies[j].exc = "FileNotFoundError")
       => /\ calls = OneTo(Len(strategies))
          /\ result.kind = "raise"
          /\ result.exc = "FileNotFoundError"
          /\ "cpack" \in Range(result.msg)

C3_Witness ==
    /\ op = "get_cpack_path"
    /\ pc = "done"
    /\ Len(strategies) = 2
    /\ \A j \in DOMAIN strategies :
          strategies[j].kind = "raise" /\ strategies[j].exc = "FileNotFoundError"
    /\ calls = <<1, 2>>
    /\ result.exc = "FileNotFoundError"

\* the entries of a listing that are not directories and whose name ends in ext
Artifacts(entries, ext) ==
    { i \in DOMAIN entries :
        /\ ~entries[i].is_dir
        /\ entries[i].name # <<>>
        /\ entries[i].name[Len(entries[i].name)] = ext }

C10_CreateSystemPackage ==
    op = "create_system_package" =>
        /\ pc = "run_cpack" => cpackCalls = <<>>
        /\ pc # "run_cpack" =>
              cpackCalls = << <<args.config_file, args.output_path>> >>
        /\ locateCalls # <<>> =>
              /\ pc = "done"
              /\ locateCalls = <<args.output_path>>
              /\ LET entries == fs[args.output_path]
                     found   == Artifacts(entries,
                                          ArtifactExtension(args.packager))
                 IN  IF found = {}
                        THEN result =
                               Raise("FileNotFoundError",
                                     << IF args.packager = "AppleDMGPlatformPackager"
                                           THEN "No dmg found for "
                                           ELSE "No .msi found for ",
                                        args.config_file >>)
                        ELSE /\ result.kind = "return"
                             /\ \E i \in found :
                                   result.val =
                                     Str(<<args.output_path, "/">> \o entries[i].name)

C10_Witness ==
    /\ op = "create_system_package"
    /\ pc = "done"
    /\ args.output_path = "out"
    /\ args.config_file = "out/CPackConfig.cmake"
    /\ Len(tools) = 1
    /\ tools[1].exit = 0
    /\ locateCalls # <<>>
    /\ result.exc = "FileNotFoundError"

\* C6: a non-zero exit of an external tool is a failure of the stage that
\* ran it: when cpack exits non-zero, run_cpack raises CalledProcessError and
\* create_system_package passes it on without looking for an artifact; when
\* the freeze tool fails, freeze_env raises and no frozen-folder search is
\* made; a failed pip install ends main the same way.
C6_ToolFailurePropagates ==
    \A i \in DOMAIN tools :
        tools[i].exit # 0 =>
            /\ pc = "done"
            /\ result.kind = "raise"
            /\ tools[i].tool \in {"cpack", "pip"} =>
                  result.exc = "CalledProcessError"
            /\ locateCalls = <<>>
            /\ searches = <<>>
            /\ i = Len(tools)

C6_Witness ==
    /\ op = "create_system_package"
    /\ pc = "done"
    /\ Len(tools) = 1
    /\ tools[1].tool = "cpack"
    /\ tools[1].exit # 0
    /\ result.exc = "CalledProcessError"

IsPrefix(q, t) == Len(q) <= Len(t) /\ \A i \in DOMAIN q : q[i] = t[i]

RegisteredPlatforms == {"win32", "darwin"}

\* no collaborator of main failed: the platform is registered, the virtual
\* environment (when one was needed) was created, the wheel has its
\* top_level.txt and every external tool that ran exited with 0
NothingFailed ==
    /\ env.platform \in RegisteredPlatforms
    /\ (\/ args.force_rebuild
        \/ ~args.env_exists
        \/ ~args.lib_exists
        \/ ~args.bin_exists) => args.venv_outcome = "ok"
    /\ args.wheel_has_top_level
    /\ \A i \in DOMAIN tools : tools[i].exit = 0

\* C4: in a run of main the stages happen in the order EnvPrepared,
\* SpecsBuilt, FreezeConfigRendered, Frozen, FrozenFolderLocated,
\* InstallerConfigRendered, InstallerBuilt, ArtifactLocated, each at most
\* once and only after the one before it; none is skipped, so a run in which
\* nothing failed has been through all eight.
C4_StagesInOrder ==
    op = "main" =>
        /\ IsPrefix(stages, AllStages)
        /\ (pc = "done" /\ NothingFailed) => stages = AllStages

\* what the search of the dist directory for the frozen application gives
FrozenFolderInDist ==
    CASE env.platform = "darwin" ->
            IF \E i \in DOMAIN fs[args.dist] :
                  /\ fs[args.dist][i].is_dir
                  /\ fs[args.dist][i].name = <<args.app_name, ".app">>
               THEN "found" ELSE "None"
      [] env.platform = "win32" ->
            IF \E i \in DOMAIN fs[args.dist] :
                  /\ fs[args.dist][i].is_dir
                  /\ fs[args.dist][i].name = <<"Speedwagon!">>
                  /\ \E k \in DOMAIN fs[args.dist][i].children :
                        fs[args.dist][i].children[k].name = <<"speedwagon", ".exe">>
               THEN "found" ELSE "None"
      [] OTHER -> "unsupported"

\* C5: a failure in a stage of main ends the run: the error leaves main and
\* no later stage runs.  In particular, when everything up to the freeze
\* went well and the search of dist finds no frozen folder, main raises
\* FileNotFoundError and neither generate_config_file nor cpack is called.
C5_FailureIsTerminal ==
    op = "main" =>
        /\ result.kind = "raise" => pc = "done"
        /\ (pc = "done" /\ NothingFailed /\ FrozenFolderInDist = "None") =>
              /\ result.kind = "raise"
              /\ result.exc = "FileNotFoundError"
              /\ cpackCalls = <<>>

\* C7: on a platform without a registered implementation main raises the
\* unsupported-platform error before anything else has happened: when main
\* ends with that error no virtual environment has been created, no specs
\* file written and no external tool run.
C7_UnsupportedPlatformFirst ==
    (/\ op = "main"
     /\ pc = "done"
     /\ env.platform \notin RegisteredPlatforms
     /\ result.exc = "ValueError") =>
        /\ effects = {}
        /\ tools = <<>>

\* C8: each platform-keyed lookup (config_os_mappings in main, the strategy
\* mapping of find_frozen_folder, the generator mapping of
\* write_cpack_config_file) raises an error whose message names the platform
\* asked for when that platform is not registered, and never goes on with a
\* default implementation.
C8_LookupMissNamesPlatform ==
    (pc = "done" /\ env.platform \notin RegisteredPlatforms) =>
        /\ (op = "main" /\ stages = <<"EnvPrepared">>) =>
              /\ result.kind = "raise"
              /\ result.exc = "ValueError"
              /\ env.platform \in Range(result.msg)
              /\ generator = NoGenerator
        /\ (op = "find_frozen_folder" /\ args.strategy = "None") =>
              /\ result.kind = "raise"
              /\ result.exc = "ValueError"
              /\ env.platform \in Range(result.msg)
              /\ searches = <<>>
        /\ op = "write_cpack_config_file" =>
              /\ result.kind = "raise"
              /\ result.exc = "ValueError"
              /\ env.platform \in Range(result.msg)
              /\ effects = {}

C8_Witness ==
    /\ op = "main"
    /\ pc = "done"
    /\ env.platform = "linux"
    /\ stages = <<"EnvPrepared">>
    /\ result.exc = "ValueError"
    /\ result.msg = <<"Unsupported platform: ", "linux">>

\* t has q as a run of consecutive pieces
Contains(t, q) ==
    \E i \in 0..(Len(t) - Len(q)) : \A j \in DOMAIN q : t[i + j] = q[j]

FileNameDone ==
    op = "get_cpack_package_file_name" /\ pc = "done"

\* the system part the generator of the call puts into the name
ExpectedSystem ==
    IF args.generator = "MacOSPackageGenerator"
       THEN IF args.processor = "i386" THEN "macos-x86_64" ELSE "macos-arm64"
       ELSE "${CPACK_SYSTEM_NAME}"

\* C11: get_cpack_package_file_name puts the version into one of three
\* cases: a version that is not a prerelease gives exactly
\* ${CPACK_PACKAGE_NAME}-${CPACK_PACKAGE_VERSION}-<system>, a dev release
\* with dev number N gives a name containing ${CPACK_PACKAGE_VERSION}.devN,
\* and a prerelease that is not a dev release, with tag P (letter and number
\* joined), gives a name containing ${CPACK_PACKAGE_VERSION}.P
C11_FileNameCases ==
    FileNameDone =>
        LET v == args.version
            name == result.val.s
        IN  /\ result.kind = "return"
            /\ (~v.has_dev /\ ~v.has_pre) =>
                   name = <<"${CPACK_PACKAGE_NAME}-",
                            "${CPACK_PACKAGE_VERSION}", "-", ExpectedSystem>>
            /\ v.has_dev =>
                   Contains(name, <<"${CPACK_PACKAGE_VERSION}", ".dev",
                                    Digits[v.dev + 1]>>)
            /\ (v.has_pre /\ ~v.has_dev) =>
                   Contains(name, <<"${CPACK_PACKAGE_VERSION}", ".",
                                    v.pre_letter, Digits[v.pre_number + 1]>>)

C11_Witness ==
    /\ FileNameDone
    /\ args.generator = "MacOSPackageGenerator"
    /\ args.version.has_pre /\ ~args.version.has_dev
    /\ args.version.pre_letter = "rc" /\ args.version.pre_number = 2
    /\ result.val.s = <<"${CPACK_PACKAGE_NAME}-", "${CPACK_PACKAGE_VERSION}",
                        ".", "rc", "2", "-", "macos-arm64">>

\* C12: the prerelease test comes first and the dev test second: a version
\* that is a dev release and also carries a prerelease tag gets ".dev<N>"
\* and not the tag, and a version that is not a prerelease gets neither a
\* ".dev" nor a "." suffix
C12_DevBeforePrereleaseTag ==
    FileNameDone =>
        LET v == args.version
            name == result.val.s
        IN  /\ (v.has_dev /\ v.has_pre) =>
                   /\ Contains(name, <<".dev", Digits[v.dev + 1]>>)
                   /\ \A l \in PreLetters : ~Contains(name, <<l>>)
                   /\ ~Contains(name, <<".">>)
            /\ (~v.has_dev /\ ~v.has_pre) =>
                   /\ ~Contains(name, <<".dev">>)
                   /\ ~Contains(name, <<".">>)
                   /\ \A l \in PreLetters : ~Contains(name, <<l>>)

C12_Witness ==
    /\ FileNameDone
    /\ args.generator = "WindowsPackageGenerator"
    /\ args.version.has_dev /\ args.version.has_pre
    /\ args.version.dev = 2 /\ args.version.pre_letter = "a"
    /\ result.val.s = <<"${CPACK_PACKAGE_NAME}-", "${CPACK_PACKAGE_VERSION}",
                        ".dev", "2">>

\* the pieces of t between the piece a and the piece b
Between(t, a, b) ==
    LET i == CHOOSE i \in DOMAIN t : t[i] = a
        j == CHOOSE j \in DOMAIN t : t[j] = b
    IN  SubSeq(t, i + 1, j - 1)

\* the key a field of the record is to be rendered under
RenderedKey(class, field) ==
    IF class = "DefaultGenerateSpecs" /\ field = "data_files"
       THEN "datas"
       ELSE IF /\ class = "DefaultGenerateSpecs"
               /\ field = "top_level_package_folder_name"
               THEN "hidden_imports"
               ELSE field

\* C13: key remapping is a pure rename: the mapping every generate call
\* renders from holds each field's value under key_mapping[field] when the
\* field is remapped (data_files -> datas, top_level_package_folder_name ->
\* hidden_imports) and under the field's own name otherwise, a remapped
\* field's internal name is not a key of it, the values are the record's,
\* and generate leaves the SpecsData record as it was
C13_RemapIsPureRename ==
    op = "generate" =>
        /\ data = args.data
        /\ \A n \in DOMAIN rendered :
              LET m == rendered[n].mapping
              IN  \A i \in DOMAIN SpecsDataFields :
                     LET f == SpecsDataFields[i]
                         k == RenderedKey(args.class, f)
                     IN  /\ k \in DOMAIN m
                         /\ m[k] = args.data[f]
                         /\ k # f => f \notin DOMAIN m

C13_Witness ==
    /\ op = "generate"
    /\ pc = "done"
    /\ args.class = "DefaultGenerateSpecs"
    /\ args.data.data_files = Tuples(<<"logo.png", "speedwagon">>)
    /\ args.data.top_level_package_folder_name = Str(<<"mytool">>)
    /\ rendered[1].mapping["datas"] = Tuples(<<"logo.png", "speedwagon">>)
    /\ rendered[1].mapping["hidden_imports"] = Str(<<"mytool">>)
    /\ "data_files" \notin DOMAIN rendered[1].mapping

\* C14: rendering fails fast: when the template names a placeholder that
\* the mapping does not have, the call raises (KeyError naming the key) and
\* yields no text; the missing placeholder is not rendered as blank
C14_MissingPlaceholderRaises ==
    op = "generate" =>
        \A n \in DOMAIN rendered :
            LET m == rendered[n].mapping
                absent == {SPEC_TEMPLATE[i].key : i \in DOMAIN SPEC_TEMPLATE}
                          \ ({""} \cup DOMAIN m)
            IN  absent # {} =>
                    /\ rendered[n].out.kind = "raise"
                    /\ rendered[n].out.exc = "KeyError"
                    /\ rendered[n].out.msg \in {<<k>> : k \in absent}
                    /\ rendered[n].out.val = PyNone

C14_Witness ==
    /\ op = "generate"
    /\ args.class = "PlainKeysGenerateSpecs"
    /\ Len(rendered) = 1
    /\ "datas" \notin DOMAIN rendered[1].mapping
    /\ result = Raise("KeyError", <<"datas">>)

\* what a %(key)s position shows of a field
ShownAsStr(v) == IF v = PyNone THEN <<"None">> ELSE v.s

\* the str a Python str literal stands for: the quotes taken off and each
\* doubled backslash read as one
LiteralValue(lit) ==
    [i \in 1..(Len(lit) - 2) |->
        IF lit[i + 1] = "\\\\" THEN "\\" ELSE lit[i + 1]]

\* what a %(key)r position must hold for a field: None, or a str literal
\* standing for the field's value
HoldsLiteralOf(lit, v) ==
    IF v = PyNone
       THEN lit = <<"None">>
       ELSE /\ Len(lit) >= 2
            /\ lit[1] = "'" /\ lit[Len(lit)] = "'"
            /\ LiteralValue(lit) = v.s

\* C15: in the rendered freeze spec the record's top-level package name
\* stands in the hiddenimports position and its executable name in the EXE
\* name position; the collection name and the bundle name stand in the
\* COLLECT and BUNDLE name positions and the bootstrap script, as a Python
\* literal, in the Analysis position
C15_FieldsAtTheirPositions ==
    (op = "generate" /\ args.class = "DefaultGenerateSpecs") =>
        \A n \in DOMAIN rendered :
            LET text == rendered[n].out.val.s
                d == args.data
            IN  /\ rendered[n].out.kind = "return"
                /\ Between(text, ", hiddenimports=['",
                      "'], hookspath=[os.path.join(workpath, '..'), SPECPATH] + ")
                      = ShownAsStr(d.top_level_package_folder_name)
                /\ Between(text,
                      ", ...) exe = EXE(pyz, a.scripts, [], ..., name='",
                      "', debug=True, ..., icon=")
                      = ShownAsStr(d.app_executable_name)
                /\ Between(text, ") coll = COLLECT(exe, ..., name='",
                      "') ... app = BUNDLE(coll, name='")
                      = ShownAsStr(d.collection_name)
                /\ Between(text, "') ... app = BUNDLE(coll, name='",
                      "', version=pkg_metadata['Version'], icon=")
                      = ShownAsStr(d.bundle_name)
                /\ HoldsLiteralOf(Between(text, "a = Analysis([",
                                          "], pathex="),
                                  d.bootstrap_script)

C15_Witness ==
    /\ op = "generate"
    /\ pc = "done"
    /\ args.class = "DefaultGenerateSpecs"
    /\ args.data.top_level_package_folder_name = Str(<<"mytool">>)
    /\ args.data.app_executable_name = Str(<<"speedwagon">>)
    /\ args.data.bootstrap_script = Str(<<"C:", "\\", "bootstrap.py">>)
    /\ Contains(result.val.s, <<", hiddenimports=['", "mytool">>)
    /\ Contains(result.val.s,
                <<", ...) exe = EXE(pyz, a.scripts, [], ..., name='",
                  "speedwagon">>)
    /\ Contains(result.val.s, <<"'", "C:", "\\\\", "bootstrap.py", "'">>)

RegisteredFrozenStrategy ==
    IF module.default_search_frozen_strategy_mapping.set
       THEN module.default_search_frozen_strategy_mapping.get[env.platform]
       ELSE CASE env.platform = "win32" -> "find_frozen_windows"
              [] env.platform = "darwin" -> "find_frozen_mac"
              [] OTHER -> "none"

\* C17: find_frozen_folder invokes one search strategy with (search_path,
\* args) and returns what it returns: the strategy passed explicitly when
\* there is one (the platform mapping is then not consulted and no
\* unsupported-platform error can occur), otherwise the strategy that the
\* module-level default_search_frozen_strategy_mapping has for the running
\* platform at the time of the call
C17_FindFrozenFolderStrategy ==
    (op = "find_frozen_folder" /\ pc = "done") =>
        /\ args.strategy # "None" =>
              /\ searches = << <<args.strategy, args.search_path>> >>
              /\ result = Return(args.custom_result)
        /\ (args.strategy = "None" /\ RegisteredFrozenStrategy # "none") =>
              /\ searches = << <<RegisteredFrozenStrategy, args.search_path>> >>
              /\ result.kind = "return"
        /\ (args.strategy = "None" /\ RegisteredFrozenStrategy = "none") =>
              /\ searches = <<>>
              /\ result.kind = "raise"
              /\ result.exc = "ValueError"

\* get_cpack_path was called without a strategies argument
CalledWithoutStrategies ==
    /\ op = "get_cpack_path"
    /\ strategies \in {NoStrategies, CpackStrategies(NoStrategies, env)}

\* the list the module-level DEFAULT_CPACK_FINDING_STRATEGIES holds: the one
\* a caller put there, or PATH first and the cmake package second
DefaultCpackFindingStrategies ==
    IF module.DEFAULT_CPACK_FINDING_STRATEGIES.set
       THEN module.DEFAULT_CPACK_FINDING_STRATEGIES.list
       ELSE <<locate_cpack_on_path_env_var(env),
              locate_cpack_in_python_packages(env)>>

\* C19: get_cpack_path called with no strategies argument resolves through
\* the module-level list DEFAULT_CPACK_FINDING_STRATEGIES as it is when the
\* call is made (a list put there by a caller decides the result); left
\* alone, that list tries the PATH lookup first and the cmake package's bin
\* directory second
C19_DefaultCpackStrategiesAtCallTime ==
    (CalledWithoutStrategies /\ pc = "done") =>
        result = FirstCpack(DefaultCpackFindingStrategies, 1)

\* the license file the generator of the call writes into its output path
ExpectedLicenseFile ==
    <<"/cwd/", args.output_path, "/",
      IF args.generator = "WindowsPackageGenerator"
         THEN "LICENSE.txt" ELSE "LICENSE">>

C20_WindowsLicenseStrategiesAttribute ==
    (/\ op = "get_license_path"
     /\ args.generator = "WindowsPackageGenerator"
     /\ pc = "done") =>
        LET attr == args.default_license_find_strategies
        IN  /\ calls = OneTo(Len(calls))
            /\ attr.set =>
                  /\ result = attr.list[1]
                  /\ files = InitialLicenseFiles(args)
            /\ ~attr.set => strategies[1].class = "CopyLicenseFile"

\* C21: the Windows generator's get_cpack_system_name returns "win64" on a
\* 64bit architecture and "win32" on a 32bit one, and on any other
\* architecture raises ValueError with a message that holds the
\* architecture value.
C21_WindowsSystemName ==
    (op = "get_cpack_system_name" /\ pc = "done") =>
        LET bits == args.architecture[1]
        IN  /\ bits = "64bit" => result = Return(Str(<<"win64">>))
            /\ bits = "32bit" => result = Return(Str(<<"win32">>))
            /\ bits \notin {"64bit", "32bit"} =>
                  /\ result.kind = "raise"
                  /\ result.exc = "ValueError"
                  /\ Contains(result.msg, <<bits>>)

C21_Witness ==
    /\ op = "get_cpack_system_name"
    /\ pc = "done"
    /\ args.architecture[1] = "something else"
    /\ result.exc = "ValueError"

\* C22: the WiX values are a function of the architecture alone: "x64"
\* and "8" on 64bit, "x86" and "4" on 32bit, and None for both keys on any
\* other architecture.
C22_WixSpecificConfigs ==
    (op = "package_specific_config_lines" /\ pc = "done") =>
        LET bits == args.architecture[1]
            specs == rendered[1].mapping
        IN  /\ bits = "64bit" =>
                  /\ specs.cpack_wix_architecture = Str(<<"x64">>)
                  /\ specs.cpack_wix_sizeof_void_p = Str(<<"8">>)
            /\ bits = "32bit" =>
                  /\ specs.cpack_wix_architecture = Str(<<"x86">>)
                  /\ specs.cpack_wix_sizeof_void_p = Str(<<"4">>)
            /\ bits \notin {"64bit", "32bit"} =>
                  /\ specs.cpack_wix_architecture = PyNone
                  /\ specs.cpack_wix_sizeof_void_p = PyNone

\* the file extract_license_file_from_wheel writes
WheelLicenseFile == <<"build", "/", "license.txt">>

\* C23: generate_cpack_config_file_string asks the license sources in the
\* order user-supplied --license-file, then the wheel's license text, and
\* stops at the first that yields a result: with a user file the wheel
\* source is not invoked and license.txt is not written; when neither
\* yields a result, a warning is logged and the config is rendered all the
\* same.
C23_LicenseSourcesInOrder ==
    op = "generate_cpack_config_file_string" =>
        /\ IsPrefix(calls, <<"use_license_file_from_user_args",
                             "extract_license_file_from_wheel">>)
        /\ (pc \in {"generate", "done"} /\ args.license_file # PyNone) =>
              /\ calls = <<"use_license_file_from_user_args">>
              /\ generator.license_file = args.license_file
              /\ ~files[abspath(WheelLicenseFile)].exists
              /\ log = <<>>
        /\ (/\ pc \in {"generate", "done"}
            /\ args.license_file = PyNone
            /\ args.wheel_license # <<>>) =>
              /\ Len(calls) = 2
              /\ generator.license_file = Str(WheelLicenseFile)
              /\ files[abspath(WheelLicenseFile)] =
                     [exists |-> TRUE, text |-> args.wheel_license[1]]
              /\ log = <<>>
        /\ (/\ pc \in {"generate", "done"}
            /\ args.license_file = PyNone
            /\ args.wheel_license = <<>>) =>
              /\ Len(calls) = 2
              /\ generator.license_file = PyNone
              /\ ~files[abspath(WheelLicenseFile)].exists
              /\ log = <<"No license file found">>
        /\ pc = "done" =>
              /\ result.kind = "return"
              /\ result.val.t = "str"
              /\ Contains(result.val.s, <<"\nset(CPACK_GENERATOR \"">>)

C23_Witness ==
    /\ op = "generate_cpack_config_file_string"
    /\ pc = "done"
    /\ args.license_file = PyNone
    /\ args.wheel_license = <<>>
    /\ log = <<"No license file found">>
    /\ result.kind = "return"

\* C24: when --license-file is given, the CPACK_RESOURCE_FILE_LICENSE line
\* of the rendered config names that file, not a LICENSE of the working
\* directory nor a generated placeholder.
C24_UserLicenseInConfig ==
    (/\ op = "generate_cpack_config_file_string"
     /\ pc = "done"
     /\ args.license_file # PyNone) =>
        /\ result.kind = "return"
        /\ Between(result.val.s,
                   "\")\nset(CPACK_RESOURCE_FILE_LICENSE \"",
                   "\")\nset(CPACK_PACKAGE_DESCRIPTION_FILE \"")
               = abspath(args.license_file.s)

\* the file the generator's placeholder strategy writes
PlaceholderFile ==
    IF args.generator = "WindowsPackageGenerator"
       THEN <<"/cwd/", args.output_path, "/", "LICENSE.txt">>
       ELSE <<"/cwd/", args.output_path, "/", "LICENSE">>

\* C25: the placeholder stub is written only when the placeholder strategy
\* is invoked, that is when every strategy before it returned None: when
\* the LICENSE of the working directory is found or copied, no stub is
\* written, the LICENSE keeps its text and the copy holds that text; and
\* CopyLicenseFile writes nothing and returns None when its source is
\* missing.
C25_PlaceholderOnlyWhenInvoked ==
    op = "get_license_path" =>
        LET before == InitialLicenseFiles(args)
            source == <<"/cwd/", "LICENSE">>
        IN  /\ \A p \in DOMAIN files :
                  files[p] = [exists |-> TRUE, text |-> "No License given"]
                     => /\ p = PlaceholderFile
                        /\ calls = <<1, 2>>
                        /\ ~args.license_exists
            /\ (pc = "done" /\ args.license_exists) =>
                  /\ calls = <<1>>
                  /\ result.kind = "return"
                  /\ files[source] = before[source]
                  /\ \A p \in DOMAIN files \ {PlaceholderFile} :
                        files[p] = before[p]
                  /\ files[PlaceholderFile] =
                        IF args.generator = "WindowsPackageGenerator"
                           THEN before[source]
                           ELSE before[PlaceholderFile]
            /\ (/\ args.generator = "WindowsPackageGenerator"
                /\ ~args.license_exists
                /\ calls = <<1>>) =>
                  /\ files = before
                  /\ result.kind = "pending"

C25_Witness ==
    /\ op = "get_license_path"
    /\ pc = "done"
    /\ args.generator = "WindowsPackageGenerator"
    /\ args.license_exists
    /\ args.stale_output
    /\ files[PlaceholderFile].text = "MIT License"

\* C26: in a run of main the directory cpack builds in, and the one
\* searched for the installer, is the user's --dist directory, where
\* CPackConfig.cmake was written, whatever --dist is.
C26_PackagesInUserDist ==
    (op = "create_system_package" /\ args.dist # "none") =>
        /\ \A i \in DOMAIN cpackCalls : cpackCalls[i][2] = args.dist
        /\ \A i \in DOMAIN locateCalls : locateCalls[i] = args.dist

\* C27: the artifact create_system_package returns is one the cpack run of
\* the same call has made, never a matching file that was in the output
\* directory before the call.
C27_ArtifactIsFresh ==
    (op = "create_system_package" /\ pc = "done" /\ result.kind = "return")
        => \A e \in EntryPool :
              result.val # Str(<<args.output_path, "/">> \o e.name)

\* C28: for every generator and every kind of version the file-name
\* pattern starts with ${CPACK_PACKAGE_NAME}-${CPACK_PACKAGE_VERSION} and
\* ends with the system tag: -${CPACK_SYSTEM_NAME} for the base generator,
\* -macos-<arch> for the macOS one.
C28_NameStartsAndEndsTagged ==
    FileNameDone =>
        LET name == result.val.s
            n == Len(name)
        IN  /\ result.kind = "return"
            /\ IsPrefix(<<"${CPACK_PACKAGE_NAME}-", "${CPACK_PACKAGE_VERSION}">>,
                        name)
            /\ n >= 2
            /\ name[n - 1] = "-"
            /\ name[n] = ExpectedSystem

\* C29: generate_freeze_config on a generator whose hooks path or package
\* file is not set raises ValueError and creates or writes nothing; once
\* build_specs has run, it makes the hooks directory when missing, writes
\* the wheel's hook file, calls generate exactly once and returns its text.
C29_BuildSpecsBeforeGenerate ==
    (op = "generate_freeze_config" /\ pc = "done") =>
        /\ (\/ generator.additional_hooks_path = PyNone
            \/ generator.python_package_file = PyNone) =>
              /\ result.kind = "raise"
              /\ result.exc = "ValueError"
              /\ effects = {}
              /\ rendered = <<>>
        /\ "SpecsBuilt" \in Range(stages) =>
              /\ result.kind = "return"
              /\ "hook_file_written" \in effects
              /\ ("hooks_dir_created" \in effects) = ~args.hooks_exists
              /\ Len(rendered) = 1
              /\ result = rendered[1].out

\* C30: in get_cpack_path only FileNotFoundError stands for "no result":
\* a strategy that raises anything else ends the resolution, its exception
\* reaches the caller as raised and no later strategy is invoked; in
\* get_license nothing is caught, so any strategy that raises,
\* FileNotFoundError included, ends the chain with its exception.
C30_OnlyFileNotFoundCaught ==
    /\ (op = "get_cpack_path" /\ pc \in {"loop", "done"}) =>
          \A k \in DOMAIN calls :
             LET o == strategies[calls[k]]
             IN  /\ (o.kind = "raise" /\ o.exc # "FileNotFoundError") =>
                       /\ k = Len(calls)
                       /\ pc = "done"
                       /\ result = o
                 /\ (o.kind = "raise" /\ o.exc = "FileNotFoundError") =>
                       \/ k < Len(calls)
                       \/ pc = "loop" /\ result.kind = "pending"
                       \/ /\ pc = "done"
                          /\ Len(calls) = Len(strategies)
                          /\ result = Raise("FileNotFoundError",
                                            <<"cpack", " command not found">>)
    /\ op = "get_license" =>
          \A k \in DOMAIN calls :
             LET o == strategies[calls[k]]
             IN  o.kind = "raise" =>
                    /\ k = Len(calls)
                    /\ pc = "done"
                    /\ result = o

C30_Witness ==
    /\ op = "get_cpack_path"
    /\ pc = "done"
    /\ result.exc = "ValueError"
    /\ Len(calls) = 2
    /\ strategies[1].exc = "FileNotFoundError"
    /\ Len(strategies) = 3

====
